---- MODULE Spec2Model ----
(***************************************************************************)
(* A model of climetlab/utils/config.py: the placeholder resolver          *)
(* `substitute`, the registered function `hdates_from_date` and the loop   *)
(* domain expander `expand`.                                               *)
(*                                                                         *)
(* Python strings are sequences of one-character strings.  Python objects  *)
(* that have an identity (list, tuple, dict) live in `heap`; a value is a  *)
(* string, a number, None or a reference to a heap cell.                   *)
(***************************************************************************)
EXTENDS Integers, Sequences, FiniteSets, TLC

VARIABLES
    pc,                 \* "ready" before the call, "done" after it
    heap,               \* the object store: address -> list, tuple or dict
    environ,            \* os.environ: name -> string
    strftime_pads,      \* whether the platform's strftime("%Y") zero-pads
    args,               \* the arguments of the call
    ret                 \* what the call returned or raised

state == <<pc, heap, environ, strftime_pads, args, ret>>

(***************************************************************************)
(* Characters and strings                                                  *)
(***************************************************************************)
LowerLetters ==
    <<"a", "b", "c", "d", "e", "f", "g", "h", "i", "j", "k", "l", "m",
      "n", "o", "p", "q", "r", "s", "t", "u", "v", "w", "x", "y", "z">>

UpperLetters ==
    <<"A", "B", "C", "D", "E", "F", "G", "H", "I", "J", "K", "L", "M",
      "N", "O", "P", "Q", "R", "S", "T", "U", "V", "W", "X", "Y", "Z">>

DigitChars == <<"0", "1", "2", "3", "4", "5", "6", "7", "8", "9">>

LowerSet == {LowerLetters[i] : i \in 1..Len(LowerLetters)}

UpperSet == {UpperLetters[i] : i \in 1..Len(UpperLetters)}

DigitSet == {DigitChars[i] : i \in 1..Len(DigitChars)}

IsLower(c) == c \in LowerSet

IsUpper(c) == c \in UpperSet

IsDigit(c) == c \in DigitSet

\* The class \w of the placeholder pattern.
WordSet == LowerSet \cup UpperSet \cup DigitSet \cup {"_"}

IsWordChar(c) == c \in WordSet

\* str.upper on one character.
UpperOf ==
    [c \in LowerSet |->
        UpperLetters[CHOOSE i \in 1..Len(LowerLetters) : LowerLetters[i] = c]]

CharUpper(c) == IF IsLower(c) THEN UpperOf[c] ELSE c

\* str.upper
StrUpper(s) == [i \in 1..Len(s) |-> CharUpper(s[i])]

\* c in s
Contains(s, c) == \E i \in 1..Len(s) : s[i] = c

\* The value of a decimal digit.
DigitValueOf ==
    [c \in DigitSet |-> (CHOOSE i \in 1..Len(DigitChars) : DigitChars[i] = c) - 1]

DigitValue(c) == DigitValueOf[c]

RECURSIVE Concat(_)
\* "".join(seq) for a sequence of strings
Concat(seq) == IF seq = <<>> THEN <<>> ELSE Head(seq) \o Concat(Tail(seq))

(***************************************************************************)
(* Values and outcomes                                                     *)
(***************************************************************************)
\* Every value has the same four fields; t tells which one carries it.
Str(s) == [t |-> "str", s |-> s, n |-> 0, d |-> <<>>]

Num(n) == [t |-> "num", s |-> <<>>, n |-> n, d |-> <<>>]

None == [t |-> "none", s |-> <<>>, n |-> 0, d |-> <<>>]

\* A reference to the heap cell at address a.
Ref(a) == [t |-> "ref", s |-> <<>>, n |-> a, d |-> <<>>]

\* datetime.datetime(year, month, day, hour, minute, second)
Datetime(y, m, dd, hh, mi, ss) ==
    [t |-> "datetime", s |-> <<>>, n |-> 0, d |-> <<y, m, dd, hh, mi, ss>>]

\* A call's outcome: a returned value, or the exception it raised.
Ok(v) == [exc |-> "none", v |-> v]

Raise(e, what) == [exc |-> e, v |-> Str(what)]

RECURSIVE NatDigits(_)
NatDigits(n) ==
    IF n < 10 THEN <<DigitChars[n + 1]>>
    ELSE NatDigits(n \div 10) \o <<DigitChars[(n % 10) + 1]>>

\* str(n) for an int
IntStr(n) == IF n < 0 THEN <<"-">> \o NatDigits(0 - n) ELSE NatDigits(n)

\* n as w digits, zero-padded on the left
ZeroPad(n, w) ==
    LET ds == NatDigits(n)
    IN  [i \in 1..(w - Len(ds)) |-> "0"] \o ds

\* str(v) for a value that is not a container
PyStr(v) ==
    CASE v.t = "str" -> v.s
      [] v.t = "num" -> IntStr(v.n)
      [] v.t = "datetime" ->
            ZeroPad(v.d[1], 4) \o <<"-">> \o ZeroPad(v.d[2], 2) \o <<"-">>
            \o ZeroPad(v.d[3], 2) \o <<" ">> \o ZeroPad(v.d[4], 2) \o <<":">>
            \o ZeroPad(v.d[5], 2) \o <<":">> \o ZeroPad(v.d[6], 2)
      [] OTHER -> <<"N", "o", "n", "e">>

(***************************************************************************)
(* Calendar                                                                *)
(***************************************************************************)
IsLeap(y) == (y % 4 = 0 /\ y % 100 # 0) \/ y % 400 = 0

DaysInMonth(y, m) ==
    CASE m = 2 -> IF IsLeap(y) THEN 29 ELSE 28
      [] m \in {4, 6, 9, 11} -> 30
      [] OTHER -> 31

\* str.isdigit for the ASCII strings of the model.
IsDigitStr(s) == Len(s) > 0 /\ \A i \in 1..Len(s) : IsDigit(s[i])

RECURSIVE ParseNat(_)
\* int(s) for a string of decimal digits
ParseNat(s) ==
    IF s = <<>> THEN 0
    ELSE 10 * ParseNat(SubSeq(s, 1, Len(s) - 1)) + DigitValue(s[Len(s)])

\* int(v) for a value whose str(v) is a digit string
PyInt(v) == IF v.t = "num" THEN v.n ELSE ParseNat(v.s)

\* to_datetime of climetlab.utils.dates: a datetime is returned as it is, a
\* string "YYYY-MM-DD" is parsed to that day at 00:00:00.
to_datetime(v) ==
    IF v.t = "datetime" THEN Ok(v)
    ELSE IF v.t = "str"
            /\ Len(v.s) = 10
            /\ v.s[5] = "-" /\ v.s[8] = "-"
            /\ \A i \in {1, 2, 3, 4, 6, 7, 9, 10} : IsDigit(v.s[i])
    THEN LET y == ParseNat(SubSeq(v.s, 1, 4))
             m == ParseNat(SubSeq(v.s, 6, 7))
             dd == ParseNat(SubSeq(v.s, 9, 10))
         IN  IF y >= 1 /\ m \in 1..12 /\ dd \in 1..DaysInMonth(y, m)
             THEN Ok(Datetime(y, m, dd, 0, 0, 0))
             ELSE Raise("DateParseError", PyStr(v))
    ELSE Raise("DateParseError", PyStr(v))

\* date.replace(year=year): the year must be one datetime has (1..9999) and
\* the day must exist in that year's month.
replace_year(date, year) ==
    IF year < 1 \/ year > 9999
    THEN Raise("ValueError", <<"y", "e", "a", "r">>)
    ELSE IF date.d[3] > DaysInMonth(year, date.d[2])
    THEN Raise("ValueError", <<"d", "a", "y">>)
    ELSE Ok(Datetime(year, date.d[2], date.d[3], date.d[4], date.d[5], date.d[6]))

\* d.strftime("%Y-%m-%d"): %m and %d are two digits; %Y is the year's digits,
\* which the C library pads to four digits on some platforms only.
strftime_ymd(date) ==
    (IF strftime_pads /\ date.d[1] < 1000
     THEN ZeroPad(date.d[1], 4) ELSE NatDigits(date.d[1]))
    \o <<"-">> \o ZeroPad(date.d[2], 2) \o <<"-">> \o ZeroPad(date.d[3], 2)

RECURSIVE hdates_join(_, _, _)
\* "/".join(d.strftime(...) for d in [date.replace(year=y) for y in range(year, end_year + 1)])
\* every replace is done before the first strftime
hdates_join(date, year, end_year) ==
    IF year > end_year THEN Ok(Str(<<>>))
    ELSE LET r == replace_year(date, year)
         IN  IF r.exc # "none" THEN r
             ELSE LET rest == hdates_join(date, year + 1, end_year)
                  IN  IF rest.exc # "none" THEN rest
                      ELSE Ok(Str(strftime_ymd(r.v)
                                  \o (IF year < end_year THEN <<"/">> ELSE <<>>)
                                  \o rest.v.s))

hdates_from_date(date, start_year, end_year) ==
    IF ~IsDigitStr(PyStr(start_year))
    THEN Raise("ValueError", <<"s", "t", "a", "r", "t", "_", "y", "e", "a", "r">>)
    ELSE IF ~IsDigitStr(PyStr(end_year))
    THEN Raise("ValueError", <<"e", "n", "d", "_", "y", "e", "a", "r">>)
    ELSE LET dt == to_datetime(date)
         IN  IF dt.exc # "none" THEN dt
             ELSE IF dt.v.d[4] # 0 \/ dt.v.d[5] # 0 \/ dt.v.d[6] # 0
             THEN Raise("AssertionError", <<>>)
             ELSE hdates_join(dt.v, PyInt(start_year), PyInt(end_year))

(***************************************************************************)
(* substitute                                                              *)
(***************************************************************************)
RECURSIVE WordEnd(_, _)
\* The last index of the run of word characters that starts at i (\w+).
WordEnd(x, i) ==
    IF i < Len(x) /\ IsWordChar(x[i + 1]) THEN WordEnd(x, i + 1) ELSE i

RECURSIVE FindChar(_, _, _)
\* The first index >= i at which x holds c, or 0.
FindChar(x, c, i) ==
    IF i > Len(x) THEN 0 ELSE IF x[i] = c THEN i ELSE FindChar(x, c, i + 1)

RECURSIVE NextMatch(_, _)
\* The leftmost index >= i where the pattern \$(\w+)(\([^\)]*\))? matches:
\* a "$" followed by a word character; 0 when there is none.
NextMatch(x, i) ==
    IF i >= Len(x) THEN 0
    ELSE IF x[i] = "$" /\ IsWordChar(x[i + 1]) THEN i
    ELSE NextMatch(x, i + 1)

\* The last index of the match that starts at j: the name, and the
\* parenthesised group when a "(" follows the name and a ")" closes it.
MatchEnd(x, j) ==
    LET w == WordEnd(x, j + 1)
        close == IF w < Len(x) /\ x[w + 1] = "(" THEN FindChar(x, ")", w + 2) ELSE 0
    IN  IF close > 0 THEN close ELSE w

RECURSIVE Bits(_, _)
\* The pieces of re.split(pattern, x) that the loop keeps (i % 4 in {0, 1}),
\* from index i on: literal text and whole placeholders, alternating.
Bits(x, i) ==
    LET j == NextMatch(x, i)
    IN  IF j = 0 THEN <<[ph |-> FALSE, s |-> SubSeq(x, i, Len(x))]>>
        ELSE <<[ph |-> FALSE, s |-> SubSeq(x, i, j - 1)],
               [ph |-> TRUE, s |-> SubSeq(x, j, MatchEnd(x, j))]>>
             \o Bits(x, MatchEnd(x, j) + 1)

RECURSIVE SplitAt(_, _)
\* s.split(c)
SplitAt(s, c) ==
    LET k == FindChar(s, c, 1)
    IN  IF k = 0 THEN <<s>>
        ELSE <<SubSeq(s, 1, k - 1)>> \o SplitAt(SubSeq(s, k + 1, Len(s)), c)

RECURSIVE Strip(_)
\* s.strip()
Strip(s) ==
    IF s # <<>> /\ s[1] = " " THEN Strip(Tail(s))
    ELSE IF s # <<>> /\ s[Len(s)] = " " THEN Strip(SubSeq(s, 1, Len(s) - 1))
    ELSE s

\* The function name of a placeholder "$name(args)": match.group(1).
FunctionName(bit) == SubSeq(bit, 2, FindChar(bit, "(", 1) - 1)

\* [p.strip() for p in match.group(2).split(",")]
FunctionParams(bit) ==
    LET inner == SubSeq(bit, FindChar(bit, "(", 1) + 1, Len(bit) - 1)
        parts == SplitAt(inner, ",")
    IN  [i \in 1..Len(parts) |-> Strip(parts[i])]

\* The names of dict(hdates_from_date=hdates_from_date).
hdates_name ==
    <<"h", "d", "a", "t", "e", "s", "_", "f", "r", "o", "m", "_", "d", "a", "t", "e">>

FunctionRegistry == {hdates_name}

\* A call that passes the parameters in the reverse order.
CallFunction_Reversed(function_name, params) ==
    IF Len(params) # 3 THEN Raise("TypeError", function_name)
    ELSE hdates_from_date(Str(params[3]), Str(params[2]), Str(params[1]))

\* dict(...)[function_name](*params): the three positional parameters of
\* hdates_from_date; any other number of arguments is a TypeError.
CallFunction(function_name, params) ==
    IF Len(params) # 3 THEN Raise("TypeError", function_name)
    ELSE hdates_from_date(Str(params[1]), Str(params[2]), Str(params[3]))

\* A handler that drops the placeholder it could not resolve.
CatchKeyError_Drop(r, bit, ignore_missing) ==
    IF r.exc = "KeyError" /\ ignore_missing THEN Ok(Str(<<>>)) ELSE r

\* except KeyError as e: if not ignore_missing: raise e
\* (a swallowed KeyError leaves bit as it was)
CatchKeyError(r, bit, ignore_missing) ==
    IF r.exc = "KeyError" /\ ignore_missing THEN Ok(Str(bit)) ELSE r

RECURSIVE substitute_str(_, _, _, _)
RECURSIVE substitute_bits(_, _, _, _, _, _)
RECURSIVE substitute_params(_, _, _, _)

\* substitute(v, vars, ignore_missing) for a value that is not a container.
\* stack holds the strings of the calls that are still active: substitute is
\* a function of (x, vars, ignore_missing, os.environ), so a call whose
\* string is already on the stack repeats its ancestor and recurses without
\* bound.  That outcome is "Unbounded": the code counts no depth and raises
\* nothing of its own.
substitute_scalar(v, vars, ignore_missing, stack) ==
    IF v.t = "str" /\ Contains(v.s, "$")
    THEN IF v.s \in stack THEN Raise("Unbounded", v.s)
         ELSE substitute_str(v.s, vars, ignore_missing, stack \cup {v.s})
    ELSE Ok(v)

\* [substitute(p, vars, ignore_missing=ignore_missing) for p in params]
\* returns the substituted parameters as strings (a sequence in v.d)
substitute_params(params, vars, ignore_missing, stack) ==
    IF params = <<>> THEN [exc |-> "none", v |-> None, ps |-> <<>>]
    ELSE LET r == substitute_scalar(Str(Head(params)), vars, ignore_missing, stack)
         IN  IF r.exc # "none" THEN [exc |-> r.exc, v |-> r.v, ps |-> <<>>]
             ELSE LET rest == substitute_params(Tail(params), vars, ignore_missing, stack)
                  IN  IF rest.exc # "none" THEN rest
                      ELSE [exc |-> "none", v |-> None,
                            ps |-> <<PyStr(r.v)>> \o rest.ps]

\* A test that takes any upper-case character for an upper-case name.
IsEnvName_AnyUpper(bit) == \E i \in 1..Len(bit) : IsUpper(bit[i])

\* bit.upper() == bit: the placeholder has no lower-case character.
IsEnvName(bit) == StrUpper(bit) = bit

\* The try block of a placeholder: a function call, an environment
\* variable when the placeholder has no lower-case character, else vars.
resolve(bit, vars, ignore_missing, stack) ==
    IF Contains(bit, "(")
    THEN LET ps == substitute_params(FunctionParams(bit), vars, ignore_missing, stack)
         IN  IF ps.exc # "none" THEN [exc |-> ps.exc, v |-> ps.v]
             ELSE IF FunctionName(bit) \notin FunctionRegistry
             THEN Raise("KeyError", FunctionName(bit))
             ELSE CallFunction(FunctionName(bit), ps.ps)
    ELSE IF IsEnvName(bit)
    THEN IF Tail(bit) \in DOMAIN environ
         THEN Ok(environ[Tail(bit)]) ELSE Raise("KeyError", Tail(bit))
    ELSE IF Tail(bit) \in DOMAIN vars
         THEN Ok(vars[Tail(bit)]) ELSE Raise("KeyError", Tail(bit))

\* A loop that never substitutes a value again.
resubstitute_Never(bit, x, vars, ignore_missing, stack) == Ok(bit)

\* if bit != x: bit = substitute(bit, vars, ignore_missing=ignore_missing)
resubstitute(bit, x, vars, ignore_missing, stack) ==
    IF bit.t = "str" /\ bit.s = x THEN Ok(bit)
    ELSE substitute_scalar(bit, vars, ignore_missing, stack)

\* The loop over the pieces of x from piece k on; lst holds the pieces done.
substitute_bits(bits, k, x, vars, ignore_missing, stack) ==
    IF k > Len(bits) THEN Ok(Str(<<>>))
    ELSE LET r == IF bits[k].ph
                  THEN CatchKeyError(resolve(bits[k].s, vars, ignore_missing, stack),
                                     bits[k].s, ignore_missing)
                  ELSE Ok(Str(bits[k].s))
         IN  IF r.exc # "none" THEN r
             ELSE LET b == resubstitute(r.v, x, vars, ignore_missing, stack)
                  IN  IF b.exc # "none" THEN b
                      ELSE LET rest == substitute_bits(bits, k + 1, x, vars,
                                                       ignore_missing, stack)
                           IN  IF rest.exc # "none" THEN rest
                               ELSE Ok(Str(PyStr(b.v) \o rest.v.s))

\* substitute(x, vars, ignore_missing) for a string x that holds a "$".
substitute_str(x, vars, ignore_missing, stack) ==
    substitute_bits(Bits(x, 1), 1, x, vars, ignore_missing, stack)

(***************************************************************************)
(* Containers: a list, a tuple or a dict is a heap cell; keys holds a      *)
(* dict's keys in insertion order and items the values (or the elements).  *)
(***************************************************************************)
Cell(t, keys, items) == [t |-> t, keys |-> keys, items |-> items]

\* The classes of the mappings: dict and its subclasses of config.py.
DictTypes == {"dict", "DictObj", "Config", "LoadersConfig"}

\* isinstance(x, dict) for an object of class t
IsDictType(t) == t \in DictTypes

IsContainer(node) == node.t \in {"list", "tuple"} \cup DictTypes

\* A new object: the heap grows by one cell, whose address is returned.
NewObject(h, cell) == [h |-> Append(h, cell), v |-> Ref(Len(h) + 1)]

\* A rebuild that writes the substituted elements into the input container.
Rebuild_InPlace(h, x, cell, items) ==
    [h |-> [h EXCEPT ![x.n] = Cell(cell.t, cell.keys, items)], v |-> x]

\* A rebuild that keeps the type of the input sequence.
Rebuild_SameType(h, x, cell, items) ==
    NewObject(h, Cell(cell.t, cell.keys, items))

\* substitute's result container for the input container x (cell is x's
\* cell, items its substituted elements): a list comprehension makes a new
\* list for a list or a tuple, a dict comprehension a new dict with x's keys.
Rebuild(h, x, cell, items) ==
    NewObject(h, Cell(IF IsDictType(cell.t) THEN "dict" ELSE "list", cell.keys, items))

RECURSIVE substitute(_, _, _, _)
RECURSIVE substitute_items(_, _, _, _)

\* The elements of a comprehension, left to right; the first exception ends it.
substitute_items(h, items, vars, ignore_missing) ==
    IF items = <<>> THEN [h |-> h, exc |-> "none", v |-> None, items |-> <<>>]
    ELSE LET r == substitute(h, Head(items), vars, ignore_missing)
         IN  IF r.exc # "none"
             THEN [h |-> r.h, exc |-> r.exc, v |-> r.v, items |-> <<>>]
             ELSE LET rest == substitute_items(r.h, Tail(items), vars, ignore_missing)
                  IN  [rest EXCEPT !.items = IF rest.exc = "none"
                                             THEN <<r.v>> \o rest.items ELSE <<>>]

\* substitute(x, vars, ignore_missing) with the heap h; an omitted vars is
\* the empty mapping.  Returns the heap after the call and the outcome.
substitute(h, x, vars, ignore_missing) ==
    IF x.t = "ref"
    THEN LET r == substitute_items(h, h[x.n].items, vars, ignore_missing)
         IN  IF r.exc # "none" THEN [h |-> r.h, exc |-> r.exc, v |-> r.v]
             ELSE LET new == Rebuild(r.h, x, h[x.n], r.items)
                  IN  [h |-> new.h, exc |-> "none", v |-> new.v]
    ELSE LET r == substitute_scalar(x, vars, ignore_missing, {})
         IN  [h |-> h, exc |-> r.exc, v |-> r.v]

(***************************************************************************)
(* Trees: a container with its elements, as the caller writes it.          *)
(***************************************************************************)
RECURSIVE Store(_, _)
RECURSIVE StoreItems(_, _)

StoreItems(h, items) ==
    IF items = <<>> THEN [h |-> h, vs |-> <<>>]
    ELSE LET r == Store(h, Head(items))
             rest == StoreItems(r.h, Tail(items))
         IN  [h |-> rest.h, vs |-> <<r.v>> \o rest.vs]

\* The heap h with the tree built in it, and the tree's value.
Store(h, tree) ==
    IF IsContainer(tree)
    THEN LET r == StoreItems(h, tree.items)
         IN  NewObject(r.h, Cell(tree.t, tree.keys, r.vs))
    ELSE [h |-> h, v |-> tree]

RECURSIVE Tree(_, _)
\* The tree that the value v denotes in the heap h.
Tree(h, v) ==
    IF v.t = "ref"
    THEN Cell(h[v.n].t, h[v.n].keys,
              [i \in 1..Len(h[v.n].items) |-> Tree(h, h[v.n].items[i])])
    ELSE v

RECURSIVE PyEq(_, _)
\* a == b for two trees: sequences of one type with equal elements, dicts
\* with the same keys and equal values, equal scalars.
PyEq(a, b) ==
    IF IsDictType(a.t) # IsDictType(b.t) \/ (~IsDictType(a.t) /\ a.t # b.t) THEN FALSE
    ELSE IF a.t \in {"list", "tuple"}
    THEN Len(a.items) = Len(b.items)
         /\ \A i \in 1..Len(a.items) : PyEq(a.items[i], b.items[i])
    ELSE IF IsDictType(a.t)
    THEN /\ {a.keys[i] : i \in 1..Len(a.keys)} = {b.keys[i] : i \in 1..Len(b.keys)}
         /\ \A i \in 1..Len(a.keys) : \A j \in 1..Len(b.keys) :
                a.keys[i] = b.keys[j] => PyEq(a.items[i], b.items[j])
    ELSE a = b

RECURSIVE Leaves(_)
\* The set of the scalar leaves of a tree.
Leaves(tree) ==
    IF IsContainer(tree)
    THEN UNION {Leaves(tree.items[i]) : i \in 1..Len(tree.items)}
    ELSE {tree}

RECURSIVE Refs(_, _)
\* The addresses of the containers reachable from the value v.
Refs(h, v) ==
    IF v.t = "ref"
    THEN {v.n} \cup UNION {Refs(h, h[v.n].items[i]) : i \in 1..Len(h[v.n].items)}
    ELSE {}

(***************************************************************************)
(* expand                                                                  *)
(***************************************************************************)
k_start == <<"s", "t", "a", "r", "t">>

k_stop == <<"s", "t", "o", "p">>

k_step == <<"s", "t", "e", "p">>

k_monthly == <<"m", "o", "n", "t", "h", "l", "y">>

k_daily == <<"d", "a", "i", "l", "y">>

\* key in d
DictHas(cell, key) == \E i \in 1..Len(cell.keys) : cell.keys[i] = key

\* d[key]
DictGet(cell, key) == cell.items[CHOOSE i \in 1..Len(cell.keys) : cell.keys[i] = key]

RECURSIVE RangeSeq(_, _, _)
\* The elements of range(start, stop, step), step not 0.
RangeSeq(start, stop, step) ==
    IF (step > 0 /\ start >= stop) \/ (step < 0 /\ start <= stop) THEN <<>>
    ELSE <<start>> \o RangeSeq(start + step, stop, step)

\* A range object: its elements.
Range(elements) == [t |-> "range", s |-> <<>>, n |-> 0, d |-> elements]

\* range(start, stop + 1, step)
expand_range(start, stop, step) ==
    IF start.t # "num" \/ stop.t # "num" \/ step.t # "num"
    THEN Raise("TypeError", <<>>)
    ELSE IF step.n = 0 THEN Raise("ValueError", k_step)
    ELSE Ok(Range(RangeSeq(start.n, stop.n + 1, step.n)))

\* date + datetime.timedelta(days=1)
NextDay(date) ==
    IF date.d[3] < DaysInMonth(date.d[1], date.d[2])
    THEN Datetime(date.d[1], date.d[2], date.d[3] + 1, date.d[4], date.d[5], date.d[6])
    ELSE IF date.d[2] < 12
    THEN Datetime(date.d[1], date.d[2] + 1, 1, date.d[4], date.d[5], date.d[6])
    ELSE Datetime(date.d[1] + 1, 1, 1, date.d[4], date.d[5], date.d[6])

RECURSIVE TupleLess(_, _)
TupleLess(a, b) ==
    IF a = <<>> THEN FALSE
    ELSE Head(a) < Head(b) \/ (Head(a) = Head(b) /\ TupleLess(Tail(a), Tail(b)))

\* a > b for two datetimes
DateAfter(a, b) == TupleLess(b.d, a.d)

\* d.isoformat() for a datetime
isoformat(date) ==
    ZeroPad(date.d[1], 4) \o <<"-">> \o ZeroPad(date.d[2], 2) \o <<"-">>
    \o ZeroPad(date.d[3], 2) \o <<"T">> \o ZeroPad(date.d[4], 2) \o <<":">>
    \o ZeroPad(date.d[5], 2) \o <<":">> \o ZeroPad(date.d[6], 2)

RECURSIVE daily_loop(_, _)
\* The daily loop: append the date, step a day, stop once past `stop`.
daily_loop(date, stop) ==
    <<date>> \o (IF DateAfter(NextDay(date), stop) THEN <<>>
                 ELSE daily_loop(NextDay(date), stop))

RECURSIVE monthly_loop(_, _, _, _, _)
\* The monthly loop: a change of (year, month) closes the list of the month
\* before; the last list is closed after the loop.
monthly_loop(date, stop, last, lst, result) ==
    LET ym == <<date.d[1], date.d[2]>>
        result1 == IF ym # last /\ lst # <<>> THEN Append(result, lst) ELSE result
        lst1 == Append(IF ym # last THEN <<>> ELSE lst, date)
    IN  IF DateAfter(NextDay(date), stop)
        THEN Append(result1, lst1)
        ELSE monthly_loop(NextDay(date), stop, ym, lst1, result1)

\* The start and the stop of values[key], as datetimes.
expand_bounds(h, inner) ==
    IF inner.t # "ref" \/ ~IsDictType(h[inner.n].t) THEN Raise("TypeError", <<>>)
    ELSE IF ~DictHas(h[inner.n], k_start) THEN Raise("KeyError", k_start)
    ELSE IF ~DictHas(h[inner.n], k_stop) THEN Raise("KeyError", k_stop)
    ELSE LET start == to_datetime(DictGet(h[inner.n], k_start))
             stop == to_datetime(DictGet(h[inner.n], k_stop))
         IN  IF start.exc # "none" THEN start
             ELSE IF stop.exc # "none" THEN stop
             ELSE [exc |-> "none", v |-> None, start |-> start.v, stop |-> stop.v]

IsoList(dates) == Cell("list", <<>>, [i \in 1..Len(dates) |-> Str(isoformat(dates[i]))])

RECURSIVE NewLists(_, _)
\* One new list of ISO strings for each group of dates.
NewLists(h, groups) ==
    IF groups = <<>> THEN [h |-> h, vs |-> <<>>]
    ELSE LET one == NewObject(h, IsoList(Head(groups)))
             rest == NewLists(one.h, Tail(groups))
         IN  [h |-> rest.h, vs |-> <<one.v>> \o rest.vs]

Returned(h, r) == [h |-> h, exc |-> r.exc, v |-> r.v]

\* One statement after another: an exception raised by the first leaves the
\* function, and the next runs on the heap and the value the first left.
Then(r, next(_, _)) == IF r.exc # "none" THEN r ELSE next(r.h, r.v)

\* A value of no form is returned as it is instead of being refused.
expand_invalid_Lenient(h, values) == Returned(h, Ok(values))

\* raise ValueError(f"Cannot expand loop from {values}")
expand_invalid(h, values) == Returned(h, Raise("ValueError", <<>>))

\* expand(values) with the heap h: the heap after the call and the outcome.
expand(h, values) ==
    IF values.t = "ref" /\ h[values.n].t = "list" THEN Returned(h, Ok(values))
    ELSE IF values.t = "ref" /\ IsDictType(h[values.n].t)
    THEN LET cell == h[values.n]
         IN  IF DictHas(cell, k_start) /\ DictHas(cell, k_stop)
             THEN Returned(h, expand_range(
                                  DictGet(cell, k_start), DictGet(cell, k_stop),
                                  IF DictHas(cell, k_step) THEN DictGet(cell, k_step)
                                  ELSE Num(1)))
             ELSE IF DictHas(cell, k_monthly)
             THEN LET b == expand_bounds(h, DictGet(cell, k_monthly))
                  IN  IF b.exc # "none" THEN Returned(h, b)
                      ELSE LET groups == NewLists(h, monthly_loop(b.start, b.stop,
                                                           <<>>, <<>>, <<>>))
                               new == NewObject(groups.h, Cell("list", <<>>, groups.vs))
                           IN  Returned(new.h, Ok(new.v))
             ELSE IF DictHas(cell, k_daily)
             THEN LET b == expand_bounds(h, DictGet(cell, k_daily))
                  IN  IF b.exc # "none" THEN Returned(h, b)
                      ELSE LET new == NewObject(h, IsoList(daily_loop(b.start, b.stop)))
                           IN  Returned(new.h, Ok(new.v))
             ELSE expand_invalid(h, values)
    ELSE expand_invalid(h, values)

(***************************************************************************)
(* DictObj                                                                 *)
(***************************************************************************)
\* The operations of dict that have a public name.
DictMethods ==
    {<<"c", "l", "e", "a", "r">>,
     <<"c", "o", "p", "y">>,
     <<"f", "r", "o", "m", "k", "e", "y", "s">>,
     <<"g", "e", "t">>,
     <<"i", "t", "e", "m", "s">>,
     <<"k", "e", "y", "s">>,
     <<"p", "o", "p">>,
     <<"p", "o", "p", "i", "t", "e", "m">>,
     <<"s", "e", "t", "d", "e", "f", "a", "u", "l", "t">>,
     <<"u", "p", "d", "a", "t", "e">>,
     <<"v", "a", "l", "u", "e", "s">>}

\* The methods that class Config adds.
ConfigMethods ==
    {<<"_", "i", "t", "e", "r", "_", "l", "o", "o", "p", "s">>,
     <<"_", "l", "e", "n", "_", "o", "f", "_", "i", "t", "e", "r", "_", "l", "o", "o", "p", "s">>,
     <<"i", "t", "e", "r", "_", "c", "o", "n", "f", "i", "g", "s">>,
     <<"s", "u", "b", "s", "t", "i", "t", "u", "t", "e">>}

\* The names that attribute lookup finds on the class of an object before
\* __getattr__ is asked.
ClassAttributes(t) ==
    IF t \in {"Config", "LoadersConfig"} THEN DictMethods \cup ConfigMethods
    ELSE IF IsDictType(t) THEN DictMethods
    ELSE {}

\* The bound method `name` of the object at address a.
Method(a, name) == [t |-> "method", s |-> name, n |-> a, d |-> <<>>]

\* d[key] = value
SetItem(cell, key, value) ==
    IF DictHas(cell, key)
    THEN [cell EXCEPT !.items[CHOOSE i \in 1..Len(cell.keys) : cell.keys[i] = key] = value]
    ELSE [cell EXCEPT !.keys = Append(cell.keys, key), !.items = Append(cell.items, value)]

\* self[attr]
getitem(h, self, attr) ==
    IF DictHas(h[self.n], attr) THEN Ok(DictGet(h[self.n], attr))
    ELSE Raise("KeyError", attr)

\* A lookup that lets the KeyError of self[attr] through.
getattr_KeyError(h, self, attr) ==
    IF attr \in ClassAttributes(h[self.n].t) THEN Ok(Method(self.n, attr))
    ELSE getitem(h, self, attr)

\* self.attr: the class is looked up first; DictObj.__getattr__ answers for
\* the other names with self[attr], a KeyError becoming AttributeError.
getattr(h, self, attr) ==
    IF attr \in ClassAttributes(h[self.n].t) THEN Ok(Method(self.n, attr))
    ELSE IF getitem(h, self, attr).exc = "KeyError" THEN Raise("AttributeError", attr)
    ELSE getitem(h, self, attr)

\* self.attr = value, which is DictObj.__setattr__: self[attr] = value
setattr(h, self, attr, value) == [h EXCEPT ![self.n] = SetItem(h[self.n], attr, value)]

RECURSIVE DictObj_new(_, _, _)
RECURSIVE wrap_items(_, _)
RECURSIVE wrap_list_items(_, _)

\* [DictObj(item) if isinstance(item, dict) else item for item in value]
wrap_list_items(h, items) ==
    IF items = <<>> THEN [h |-> h, vs |-> <<>>]
    ELSE LET item == Head(items)
             one == IF item.t = "ref" /\ IsDictType(h[item.n].t)
                    THEN DictObj_new(h, "DictObj", item)
                    ELSE [h |-> h, v |-> item]
             rest == wrap_list_items(one.h, Tail(items))
         IN  [h |-> rest.h, vs |-> <<one.v>> \o rest.vs]

\* The loop of DictObj.__init__ over the values: a dict becomes a DictObj, a
\* list a new list whose dicts are DictObj, any other value stays.
wrap_items(h, items) ==
    IF items = <<>> THEN [h |-> h, vs |-> <<>>]
    ELSE LET value == Head(items)
             one == IF value.t = "ref" /\ IsDictType(h[value.n].t)
                    THEN DictObj_new(h, "DictObj", value)
                    ELSE IF value.t = "ref" /\ h[value.n].t = "list"
                    THEN LET l == wrap_list_items(h, h[value.n].items)
                         IN  NewObject(l.h, Cell("list", <<>>, l.vs))
                    ELSE [h |-> h, v |-> value]
             rest == wrap_items(one.h, Tail(items))
         IN  [h |-> rest.h, vs |-> <<one.v>> \o rest.vs]

\* cls(mapping) for DictObj and its subclasses: a new object with the keys
\* and values of the mapping, the values wrapped.
DictObj_new(h, cls, mapping) ==
    LET self == NewObject(h, Cell(cls, h[mapping.n].keys, h[mapping.n].items))
        w == wrap_items(self.h, h[mapping.n].items)
    IN  [h |-> [w.h EXCEPT ![self.v.n] = Cell(cls, h[mapping.n].keys, w.vs)],
         v |-> self.v]

(***************************************************************************)
(* Config                                                                  *)
(***************************************************************************)
k_loop == <<"l", "o", "o", "p">>

k_values == <<"v", "a", "l", "u", "e", "s">>

\* Config(config) for a mapping.
Config_new(h, config) == DictObj_new(h, "Config", config)

\* The elements of an iterable that expand returned: a range or a list.
Elements(h, v) ==
    IF v.t = "range" THEN [i \in 1..Len(v.d) |-> Num(v.d[i])] ELSE h[v.n].items

\* dict(zip(keys, items)): the pairs up to the shorter of the two, a later
\* pair replacing an earlier one with the same key.
zip_dict(keys, items) ==
    LET n == IF Len(keys) < Len(items) THEN Len(keys) ELSE Len(items)
    IN  [k \in {keys[j] : j \in 1..n} |->
            items[CHOOSE j \in 1..n : keys[j] = k /\ \A l \in (j + 1)..n : keys[l] # k]]

\* expand(*args): expand takes one positional argument.
expand_star(h, values) ==
    IF Len(values) # 1 THEN Returned(h, Raise("TypeError", <<>>))
    ELSE expand(h, values[1])

\* A product that takes the elements in the opposite order.
product_Reversed(elements) ==
    [i \in 1..Len(elements) |-> <<elements[Len(elements) + 1 - i]>>]

\* itertools.product(iterable) of one iterable: a 1-tuple for each element.
product(elements) == [i \in 1..Len(elements) |-> <<elements[i]>>]

\* The keys of the loop with the tuples of itertools.product(e), e being what
\* expand returned or raised.
product_of(h, loop, e) ==
    IF e.exc # "none"
    THEN [h |-> e.h, exc |-> e.exc, v |-> e.v, keys |-> <<>>, tuples |-> <<>>]
    ELSE [h |-> e.h, exc |-> "none", v |-> None, keys |-> h[loop.n].keys,
          tuples |-> product(Elements(e.h, e.v))]

\* itertools.product(expand(*list(self.loop.values()))) with the keys of the
\* loop, for the value `loop` of self.loop.
loop_product(h, loop) ==
    IF loop.t # "ref" \/ ~IsDictType(h[loop.n].t)
    THEN [h |-> h, exc |-> "AttributeError", v |-> Str(k_values), keys |-> <<>>, tuples |-> <<>>]
    ELSE product_of(h, loop, expand_star(h, h[loop.n].items))

RECURSIVE iter_configs_loop(_, _, _, _, _)
RECURSIVE iter_configs_yield(_, _, _, _, _, _)
RECURSIVE iter_configs_vars(_, _, _, _, _, _)

\* yield vars, Config(substitute(self, vars)), config being the new Config
iter_configs_yield(self, p, i, yields, vars, config) ==
    iter_configs_loop(config.h, self, p, i + 1,
                      Append(yields, [vars |-> vars, config |-> config.v]))

\* One turn of the loop, for the bindings `vars` and the outcome `sub` of
\* substitute(self, vars); an exception of substitute ends the iteration.
iter_configs_vars(self, p, i, yields, vars, sub) ==
    IF sub.exc # "none"
    THEN [h |-> sub.h, exc |-> sub.exc, v |-> sub.v, yields |-> yields]
    ELSE iter_configs_yield(self, p, i, yields, vars, Config_new(sub.h, sub.v))

\* The loop of iter_configs from the i-th tuple on: the pairs yielded so far
\* are in yields.
iter_configs_loop(h, self, p, i, yields) ==
    IF i > Len(p.tuples) THEN [h |-> h, exc |-> "none", v |-> None, yields |-> yields]
    ELSE iter_configs_vars(self, p, i, yields, zip_dict(p.keys, p.tuples[i]),
                           substitute(h, self, zip_dict(p.keys, p.tuples[i]), FALSE))

\* The iteration over the product p of the loop.
iter_configs_product(self, p) ==
    IF p.exc # "none" THEN [h |-> p.h, exc |-> p.exc, v |-> p.v, yields |-> <<>>]
    ELSE iter_configs_loop(p.h, self, p, 1, <<>>)

\* iter_configs for the outcome `loop` of self.loop.
iter_configs_of(h, self, loop) ==
    IF loop.exc # "none" THEN [h |-> h, exc |-> loop.exc, v |-> loop.v, yields |-> <<>>]
    ELSE IF loop.v = None THEN [h |-> h, exc |-> "none", v |-> None, yields |-> <<>>]
    ELSE iter_configs_product(self, loop_product(h, loop.v))

\* list(self.iter_configs()).  iter_configs is a generator function: its
\* `return [self]` ends the iteration and yields nothing.
iter_configs(h, self) == iter_configs_of(h, self, getattr(h, self, k_loop))

\* The bindings of the product p of the loop.
iter_loops_product(p) ==
    [h |-> p.h, exc |-> p.exc, v |-> p.v,
     yields |-> [i \in 1..Len(p.tuples) |-> zip_dict(p.keys, p.tuples[i])]]

\* _iter_loops for the outcome `loop` of self.loop.
iter_loops_of(h, self, loop) ==
    IF loop.exc # "none" THEN [h |-> h, exc |-> loop.exc, v |-> loop.v, yields |-> <<>>]
    ELSE iter_loops_product(loop_product(h, loop.v))

\* list(self._iter_loops()): the bindings alone.
iter_loops(h, self) == iter_loops_of(h, self, getattr(h, self, k_loop))

\* len(list(...)) of the bindings r.
len_of(r) ==
    [h |-> r.h, exc |-> r.exc, v |-> IF r.exc = "none" THEN Num(Len(r.yields)) ELSE r.v,
     yields |-> <<>>]

\* self._len_of_iter_loops(): the count of the bindings.
len_of_iter_loops(h, self) == len_of(iter_loops(h, self))

(***************************************************************************)
(* LoadersConfig                                                           *)
(***************************************************************************)
k_output == <<"o", "u", "t", "p", "u", "t">>

k_input == <<"i", "n", "p", "u", "t">>

k_order == <<"o", "r", "d", "e", "r">>

k_order_by == <<"o", "r", "d", "e", "r", "_", "b", "y">>

k_constants == <<"c", "o", "n", "s", "t", "a", "n", "t", "s">>

k_remapping == <<"r", "e", "m", "a", "p", "p", "i", "n", "g">>

k_chunking == <<"c", "h", "u", "n", "k", "i", "n", "g">>

k_dtype == <<"d", "t", "y", "p", "e">>

k_reading_chunks == <<"r", "e", "a", "d", "i", "n", "g", "_", "c", "h", "u", "n", "k", "s">>

k_flatten_values == <<"f", "l", "a", "t", "t", "e", "n", "_", "v", "a", "l", "u", "e", "s">>

k_append_axis == <<"a", "p", "p", "e", "n", "d", "_", "a", "x", "i", "s">>

k_statistics == <<"s", "t", "a", "t", "i", "s", "t", "i", "c", "s">>

k_statistics_names == <<"s", "t", "a", "t", "i", "s", "t", "i", "c", "s", "_", "n", "a", "m", "e", "s">>

k_statistics_axis == <<"s", "t", "a", "t", "i", "s", "t", "i", "c", "s", "_", "a", "x", "i", "s">>

k_get == <<"g", "e", "t">>

float32 == Str(<<"f", "l", "o", "a", "t", "3", "2">>)

Bool(b) == [t |-> "bool", s |-> <<>>, n |-> IF b THEN 1 ELSE 0, d |-> <<>>]

\* normalize_order_by(order_by): the axes as a mapping, in their order; a
\* list of names becomes a mapping of each name to None.
normalize_order_by(h, order_by) ==
    IF order_by.t = "ref" /\ IsDictType(h[order_by.n].t)
    THEN Returned(NewObject(h, Cell("dict", h[order_by.n].keys, h[order_by.n].items)).h,
                  Ok(Ref(Len(h) + 1)))
    ELSE IF order_by.t = "ref" /\ h[order_by.n].t = "list"
            /\ \A i \in 1..Len(h[order_by.n].items) : h[order_by.n].items[i].t = "str"
    THEN Returned(NewObject(h, Cell("dict",
                                    [i \in 1..Len(h[order_by.n].items) |->
                                        h[order_by.n].items[i].s],
                                    [i \in 1..Len(h[order_by.n].items) |-> None])).h,
                  Ok(Ref(Len(h) + 1)))
    ELSE Returned(h, Raise("ValueError", k_order_by))

\* build_remapping(mapping): the remapping structure made of the mapping.
build_remapping(mapping) == [t |-> "remapping", s |-> <<>>, n |-> mapping.n, d |-> <<>>]

\* key in x, for a mapping, a list or a tuple, and for a string the test of
\* a substring; any other value of the documents here has no `in`.
py_in(h, key, x) ==
    IF x.t = "ref" /\ IsDictType(h[x.n].t) THEN [exc |-> "none", b |-> DictHas(h[x.n], key)]
    ELSE IF x.t = "ref"
    THEN [exc |-> "none", b |-> \E i \in 1..Len(h[x.n].items) : h[x.n].items[i] = Str(key)]
    ELSE IF x.t = "str"
    THEN [exc |-> "none",
          b |-> \E i \in 0..(Len(x.s) - Len(key)) : SubSeq(x.s, i + 1, i + Len(key)) = key]
    ELSE [exc |-> "TypeError", b |-> FALSE]

\* x.attr for any value: a DictObj answers as above, a dict has its
\* operations, any other value here has no such attribute.
getattr_of(h, x, attr) ==
    IF x.t = "ref" /\ h[x.n].t \in DictTypes \ {"dict"} THEN getattr(h, x, attr)
    ELSE IF x.t = "ref" /\ h[x.n].t = "dict" /\ attr \in DictMethods
    THEN Ok(Method(x.n, attr))
    ELSE Raise("AttributeError", attr)

\* x.attr = value: a DictObj sets its key, any other value here refuses.
setattr_of(h, x, attr, value) ==
    IF x.t = "ref" /\ h[x.n].t \in DictTypes \ {"dict"}
    THEN [h |-> setattr(h, x, attr, value), exc |-> "none", v |-> None]
    ELSE Returned(h, Raise("AttributeError", attr))

\* A get that forgets its default.
dict_get_None(cell, key, default) == IF DictHas(cell, key) THEN DictGet(cell, key) ELSE None

\* d.get(key, default)
dict_get(cell, key, default) == IF DictHas(cell, key) THEN DictGet(cell, key) ELSE default

\* x.get(key, default) followed by x.key = that value
set_default(h, x, key, default) ==
    IF getattr_of(h, x, k_get).exc # "none" THEN Returned(h, getattr_of(h, x, k_get))
    ELSE setattr_of(h, x, key, dict_get(h[x.n], key, default))

\* A check of the legacy key that looks for 'order_by'.
has_legacy_order_OrderBy(h, output) == py_in(h, k_order_by, output)

\* "order" in self.output
has_legacy_order(h, output) == py_in(h, k_order, output)

\* if "order_by" in self.output:
\*     self.output.order_by = normalize_order_by(self.output.order_by)
lc_order_by(h, output) ==
    IF ~py_in(h, k_order_by, output).b THEN Returned(h, Ok(None))
    ELSE Then(Returned(h, getattr_of(h, output, k_order_by)),
              LAMBDA h1, order_by :
                  Then(normalize_order_by(h1, order_by),
                       LAMBDA h2, axes : setattr_of(h2, output, k_order_by, axes)))

\* if "order" in self.output: raise ValueError(...)
lc_legacy_order(h, output) ==
    IF has_legacy_order(h, output).exc # "none"
    THEN Returned(h, Raise(has_legacy_order(h, output).exc, <<>>))
    ELSE IF has_legacy_order(h, output).b THEN Returned(h, Raise("ValueError", k_order))
    ELSE Returned(h, Ok(output))

\* The first part of LoadersConfig.__init__ after Config.__init__: the
\* legacy key is refused, order_by is normalised.
lc_order(h, self) ==
    Then(Returned(h, getattr(h, self, k_output)),
         LAMBDA h1, output : Then(lc_legacy_order(h1, output), lc_order_by))

\* self.input.constants = self.input["constants"], "constants" being in it
lc_constants(h, input) ==
    IF py_in(h, k_constants, input).exc # "none"
    THEN Returned(h, Raise(py_in(h, k_constants, input).exc, <<>>))
    ELSE IF ~py_in(h, k_constants, input).b THEN Returned(h, Ok(None))
    ELSE IF input.t # "ref" \/ ~IsDictType(h[input.n].t)
    THEN Returned(h, Raise("TypeError", <<>>))
    ELSE setattr_of(h, input, k_constants, DictGet(h[input.n], k_constants))

\* if "constants" in self.input: self.input.constants = self.input["constants"]
lc_input(h, self) == Then(Returned(h, getattr(h, self, k_input)), lc_constants)

\* self.output.remapping = build_remapping(self.output.remapping)
lc_remapping(h, output) ==
    Then(Returned(h, getattr_of(h, output, k_remapping)),
         LAMBDA h1, remapping :
             setattr_of(h1, output, k_remapping,
                        IF remapping.t = "ref" THEN build_remapping(remapping)
                        ELSE remapping))

\* A new empty dict, the default of a get, on the heap
EmptyCell == Cell("dict", <<>>, <<>>)

\* The defaults of the output section and reading_chunks, for the value
\* `output` of self.output.
lc_output_defaults(h, self, output) ==
    Then(set_default(Append(h, EmptyCell), output, k_remapping, Ref(Len(h) + 1)),
    LAMBDA h1, v1 : Then(lc_remapping(h1, output),
    LAMBDA h2, v2 : Then(set_default(Append(h2, EmptyCell), output, k_chunking,
                                     Ref(Len(h2) + 1)),
    LAMBDA h3, v3 : Then(set_default(h3, output, k_dtype, float32),
    LAMBDA h4, v4 : Then(setattr_of(h4, self, k_reading_chunks,
                                    dict_get(h4[self.n], k_reading_chunks, None)),
    LAMBDA h5, v5 : Then(set_default(h5, output, k_flatten_values, Bool(FALSE)),
    LAMBDA h6, v6 : setattr_of(h6, output, k_append_axis, Num(0))))))))

\* The defaults of the output section and reading_chunks.
lc_defaults(h, self) == lc_output_defaults(h, self, getattr(h, self, k_output).v)

\* A position counted from 1.
statistics_axis_of_OneBased(axes, name) ==
    IF \E i \in 1..Len(axes) : Str(axes[i]) = name
    THEN CHOOSE i \in 1..Len(axes) : Str(axes[i]) = name
    ELSE 0 - 1

\* The position of the statistics axis among the axes, -1 when it is none.
statistics_axis_of(axes, name) ==
    IF \E i \in 1..Len(axes) : Str(axes[i]) = name
    THEN (CHOOSE i \in 1..Len(axes) : Str(axes[i]) = name) - 1
    ELSE 0 - 1

\* The second assert and the two assignments after it, for the position of
\* the statistics axis.
lc_statistics_axis(h, self, optimize, order_by, axis) ==
    IF ~optimize /\ axis < 0 THEN Returned(h, Raise("AssertionError", k_order_by))
    ELSE IF axis < 0 THEN Returned(h, Raise("KeyError", k_statistics))
    ELSE setattr_of(setattr(h, self, k_statistics_names, h[order_by.n].items[axis + 1]),
                    self, k_statistics_axis, Num(axis))

\* The loop over self.output.order_by and what follows it.
lc_statistics_name(h, self, optimize, output, name) ==
    Then(Returned(h, getattr_of(h, output, k_order_by)),
         LAMBDA h1, order_by :
             IF order_by.t # "ref" THEN Returned(h1, Raise("TypeError", k_order_by))
             ELSE lc_statistics_axis(h1, self, optimize, order_by,
                                     statistics_axis_of(h1[order_by.n].keys, name)))

\* The statistics axis, for the value `output` of self.output.
lc_output_statistics(h, self, optimize, output) ==
    IF ~optimize /\ ~DictHas(h[output.n], k_statistics)
    THEN Returned(h, Raise("AssertionError", k_statistics))
    ELSE Then(Returned(h, getattr_of(h, output, k_statistics)),
              LAMBDA h1, name : lc_statistics_name(h1, self, optimize, output, name))

\* The last part of LoadersConfig.__init__: the statistics axis.  The two
\* assert statements are not run by an interpreter that optimizes.
lc_statistics(h, self, optimize) ==
    lc_output_statistics(h, self, optimize, getattr(h, self, k_output).v)

\* LoadersConfig.__init__ on the object that Config.__init__ left: self, or
\* the exception of the first statement that fails.
LoadersConfig_init(h, self, optimize) ==
    Then(lc_order(h, self),
    LAMBDA h1, v1 : Then(lc_input(h1, self),
    LAMBDA h2, v2 : Then(lc_defaults(h2, self),
    LAMBDA h3, v3 : Then(lc_statistics(h3, self, optimize),
    LAMBDA h4, v4 : Returned(h4, Ok(self))))))

\* LoadersConfig(config): the new object, or the exception raised.
LoadersConfig_new(h, config, optimize) ==
    LoadersConfig_init(DictObj_new(h, "LoadersConfig", config).h,
                       DictObj_new(h, "LoadersConfig", config).v, optimize)

(***************************************************************************)
(* The settings store (climetlab/core/settings.py)                         *)
(***************************************************************************)
\* os.path.join(DOT_CLIMETLAB, ...) and the cache directory: the text of a
\* path, which no operation of the store reads.
PathText == <<"/", "p">>

\* SETTINGS_AND_HELP: the default, the getter, none_ok and the kind
\* (type(default)) of every setting.
Setting(default, getter, none_ok, kind) ==
    [default |-> default, getter |-> getter, none_ok |-> none_ok, kind |-> kind]

SETTINGS_AND_HELP ==
    [name \in {"cache-directory", "styles-directories", "projections-directories",
               "layers-directories", "datasets-directories", "plotting-options",
               "number-of-download-threads", "maximum-cache-size",
               "maximum-cache-disk-usage", "url-download-timeout",
               "download-updated-urls"} |->
        CASE name = "cache-directory" -> Setting(Str(PathText), "", FALSE, "str")
          [] name = "plotting-options" -> Setting(Cell("dict", <<>>, <<>>), "", FALSE, "dict")
          [] name = "number-of-download-threads" -> Setting(Num(5), "", FALSE, "int")
          [] name = "maximum-cache-size" -> Setting(None, "_as_bytes", TRUE, "NoneType")
          [] name = "maximum-cache-disk-usage" ->
                Setting(Str(<<"9", "0", "%">>), "_as_percent", FALSE, "str")
          [] name = "url-download-timeout" ->
                Setting(Str(<<"3", "0", "s">>), "_as_seconds", FALSE, "str")
          [] name = "download-updated-urls" -> Setting(Bool(FALSE), "", FALSE, "bool")
          [] OTHER -> Setting(Cell("list", <<>>, <<Str(PathText)>>), "", FALSE, "list")]

SettingNames == DOMAIN SETTINGS_AND_HELP

DEFAULTS == [name \in SettingNames |-> SETTINGS_AND_HELP[name].default]

\* isinstance(value, klass) for the kinds of the settings; bool is a
\* subclass of int.
isinstance(value, klass) ==
    CASE klass = "str" -> value.t = "str"
      [] klass = "int" -> value.t \in {"num", "bool"}
      [] klass = "bool" -> value.t = "bool"
      [] klass = "list" -> value.t = "list"
      [] klass = "dict" -> value.t = "dict"
      [] OTHER -> value.t = "none"

\* The length of the run of digits that s starts with.
RECURSIVE DigitRun(_)
DigitRun(s) == IF s # <<>> /\ IsDigit(s[1]) THEN 1 + DigitRun(Tail(s)) ELSE 0

\* re.search(r"^\s*(\d+)\s*([%\w]+)?\s*$", value): the two groups, the second
\* one empty when it took no part in the match; no match when there is no
\* digit to start with or the rest is not one word of [%\w].
number_match(text) ==
    LET digits == SubSeq(Strip(text), 1, DigitRun(Strip(text)))
        unit == Strip(SubSeq(Strip(text), DigitRun(Strip(text)) + 1, Len(Strip(text))))
    IN  [matched |-> digits # <<>> /\ \A i \in 1..Len(unit) : IsWordChar(unit[i]) \/ unit[i] = "%",
         digits |-> digits, unit |-> unit]

\* value * units[unit] for the number and the unit of a match
number_of(m, units) ==
    IF m.unit = <<>> THEN Ok(Num(ParseNat(m.digits)))
    ELSE IF m.unit[1] \notin DOMAIN units THEN Raise("ValueError", m.unit)
    ELSE Ok(Num(ParseNat(m.digits) * units[m.unit[1]]))

\* A getter that takes every text for a number.
as_number_Lenient(name, value, units, none_ok) == Ok(value)

\* Settings._as_number.  str(value) of a value that is neither a string nor
\* an int (None, a bool, a list, a dict) starts with no digit.
as_number(name, value, units, none_ok) ==
    IF value = None /\ none_ok THEN Ok(None)
    ELSE IF value.t \notin {"str", "num"} \/ (value.t = "num" /\ value.n < 0)
         \/ ~number_match(PyStr(value)).matched
    THEN Raise("ValueError", <<>>)
    ELSE number_of(number_match(PyStr(value)), units)

\* Settings._as_seconds
as_seconds(name, value, none_ok) ==
    as_number(name, value, ("s" :> 1) @@ ("m" :> 60) @@ ("h" :> 3600) @@ ("d" :> 86400), none_ok)

\* Settings._as_percent
as_percent(name, value, none_ok) == as_number(name, value, ("%" :> 1), none_ok)

\* The units of _as_bytes up to G; T and P are 1024^4 and 1024^5.
BytesUnits ==
    ("K" :> 1024) @@ ("k" :> 1024) @@ ("M" :> 1024 * 1024) @@ ("m" :> 1024 * 1024)
    @@ ("G" :> 1024 * 1024 * 1024) @@ ("g" :> 1024 * 1024 * 1024)

\* Settings._as_bytes
as_bytes(name, value, none_ok) == as_number(name, value, BytesUnits, none_ok)

\* getter(name, value, none_ok) for the getter of the setting: the value
\* itself when the setting has none.
apply_getter(name, value) ==
    CASE SETTINGS_AND_HELP[name].getter = "_as_bytes" ->
            as_bytes(name, value, SETTINGS_AND_HELP[name].none_ok)
      [] SETTINGS_AND_HELP[name].getter = "_as_percent" ->
            as_percent(name, value, SETTINGS_AND_HELP[name].none_ok)
      [] SETTINGS_AND_HELP[name].getter = "_as_seconds" ->
            as_seconds(name, value, SETTINGS_AND_HELP[name].none_ok)
      [] OTHER -> Ok(value)

\* The objects of the store on the heap: a Settings with its _settings, its
\* _callbacks (addresses of callbacks), its _settings_yaml (the address of
\* the file, 0 for None) and its _stack (addresses of Settings); the file
\* settings.yaml with what was written last and the count of the writes; a
\* callback with the count of its calls.
SettingsObject(settings, callbacks, yaml, stack) ==
    [t |-> "Settings", settings |-> settings, callbacks |-> callbacks, yaml |-> yaml,
     stack |-> stack]

FileObject(content, writes) == [t |-> "file", content |-> content, writes |-> writes]

CallbackObject(calls) == [t |-> "callback", calls |-> calls]

\* The address of SETTINGS, the store of the module.
SETTINGS == 1

\* How many times the address a is in the sequence q.
CountOf(q, a) == Cardinality({i \in 1..Len(q) : q[i] = a})

\* Settings._notify: every callback of self is called, which a callback of
\* the model counts.
notify(h, self) ==
    [i \in 1..Len(h) |->
        IF h[i].t = "callback"
        THEN CallbackObject(h[i].calls + CountOf(h[self].callbacks, i))
        ELSE h[i]]

\* Settings._save: nothing without a file; an error of the write is logged
\* and the file is left as it was.
save(h, self, io_ok) ==
    IF h[self].yaml = 0 \/ ~io_ok THEN h
    ELSE [h EXCEPT ![h[self].yaml] = FileObject(h[self].settings, @.writes + 1)]

\* Settings._changed
changed(h, self, io_ok) == notify(save(h, self, io_ok), self)

\* forward(func): the Settings that func is called on, the top of the stack
\* of self when it has one.
forward(h, self) ==
    IF h[self].stack # <<>> THEN h[self].stack[Len(h[self].stack)] ELSE self

\* The two reads of forward, between which another thread can run: the test
\* "if self._stack:", and self._stack[-1], which raises IndexError when the
\* stack has been emptied since the test.
forward_test(h, self) == h[self].stack # <<>>

forward_top(h, self, tested) ==
    IF ~tested THEN Ok(Ref(self))
    ELSE IF h[self].stack = <<>> THEN Raise("IndexError", <<>>)
    ELSE Ok(Ref(h[self].stack[Len(h[self].stack)]))

\* Settings.get on the Settings at self (no forwarding): the getter applied
\* to the stored value; the store has a value for every setting, so the
\* default of the call is never used.
get_of(h, self, name) ==
    IF name \notin SettingNames THEN Raise("KeyError", <<>>)
    ELSE apply_getter(name, h[self].settings[name])

\* settings.get(name)
settings_get(h, self, name) == get_of(h, forward(h, self), name)

\* A local variable that no statement has assigned.
Unbound == [t |-> "unbound", s |-> <<>>, n |-> 0, d |-> <<>>]

\* The part of Settings.set for a setting of kind bool, int, float or str.
set_scalar(argv, kwargs, optimize) ==
    IF ~optimize /\ (Len(argv) # 1 \/ kwargs.keys # <<>>) THEN Raise("AssertionError", <<>>)
    ELSE IF argv = <<>> THEN Raise("IndexError", <<>>)
    ELSE Ok(argv[1])

\* The part of Settings.set for a setting of kind list.
set_list(argv, kwargs, optimize) ==
    IF ~optimize /\ (Len(argv) = 0 \/ kwargs.keys # <<>>) THEN Raise("AssertionError", <<>>)
    ELSE IF Len(argv) = 1 /\ argv[1].t = "list" THEN Ok(argv[1])
    ELSE Ok(Cell("list", <<>>, argv))

\* The part of Settings.set for a setting of kind dict.
set_dict(argv, kwargs, optimize) ==
    IF ~optimize /\ Len(argv) > 1 THEN Raise("AssertionError", <<>>)
    ELSE IF Len(argv) = 0
    THEN IF ~optimize /\ kwargs.keys = <<>> THEN Raise("AssertionError", <<>>)
         ELSE Ok(kwargs)
    ELSE IF Len(argv) = 1
    THEN IF ~optimize /\ kwargs.keys # <<>> THEN Raise("AssertionError", <<>>)
         ELSE Ok(argv[1])
    ELSE Ok(Unbound)

\* The value that Settings.set has before it looks at the getter.
set_by_kind(name, argv, kwargs, optimize) ==
    CASE SETTINGS_AND_HELP[name].kind \in {"bool", "int", "str"} ->
            set_scalar(argv, kwargs, optimize)
      [] SETTINGS_AND_HELP[name].kind = "list" -> set_list(argv, kwargs, optimize)
      [] SETTINGS_AND_HELP[name].kind = "dict" -> set_dict(argv, kwargs, optimize)
      [] OTHER -> Ok(Unbound)

\* The check of the type, for a setting without getter
set_typed(name, value) ==
    IF value = Unbound THEN Raise("UnboundLocalError", <<>>)
    ELSE IF ~isinstance(value, SETTINGS_AND_HELP[name].kind) THEN Raise("TypeError", <<>>)
    ELSE Ok(value)

\* The check of the format, for a setting with a getter
set_formatted(name, argv, kwargs, optimize) ==
    IF ~optimize /\ (Len(argv) # 1 \/ kwargs.keys # <<>>) THEN Raise("AssertionError", <<>>)
    ELSE IF argv = <<>> THEN Raise("IndexError", <<>>)
    ELSE IF apply_getter(name, argv[1]).exc # "none" THEN apply_getter(name, argv[1])
    ELSE Ok(argv[1])

\* The value that Settings.set stores, or the exception it raises before.
set_value(name, argv, kwargs, optimize) ==
    IF name \notin SettingNames THEN Raise("KeyError", <<>>)
    ELSE IF set_by_kind(name, argv, kwargs, optimize).exc # "none"
    THEN set_by_kind(name, argv, kwargs, optimize)
    ELSE IF SETTINGS_AND_HELP[name].getter # ""
    THEN set_formatted(name, argv, kwargs, optimize)
    ELSE set_typed(name, set_by_kind(name, argv, kwargs, optimize).v)

\* self._settings[name] = value; self._changed(), value being the outcome of
\* what comes before in Settings.set
set_store(h, self, name, value, io_ok) ==
    IF value.exc # "none" THEN Returned(h, value)
    ELSE Returned(changed([h EXCEPT ![self].settings[name] = value.v], self, io_ok), Ok(None))

\* Settings.set on the Settings at self (no forwarding)
set_of(h, self, name, argv, kwargs, optimize, io_ok) ==
    set_store(h, self, name, set_value(name, argv, kwargs, optimize), io_ok)

\* settings.set(name, *args, **kwargs), argv being args
settings_set(h, self, name, argv, kwargs, optimize, io_ok) ==
    set_of(h, forward(h, self), name, argv, kwargs, optimize, io_ok)

\* Settings.reset on the Settings at self (no forwarding): of one setting,
\* or of all of them when no name is given.
reset_of(h, self, has_name, name, io_ok) ==
    IF ~has_name
    THEN Returned(changed([h EXCEPT ![self].settings = DEFAULTS], self, io_ok), Ok(None))
    ELSE IF name \notin SettingNames THEN Returned(h, Raise("KeyError", <<>>))
    ELSE Returned(changed([h EXCEPT ![self].settings[name] = DEFAULTS[name]], self, io_ok),
                  Ok(None))

\* settings.reset(name)
settings_reset(h, self, has_name, name, io_ok) ==
    reset_of(h, forward(h, self), has_name, name, io_ok)

\* settings.on_change(callback), which is not forwarded
on_change(h, self, callback) ==
    [h EXCEPT ![self].callbacks = Append(@, callback)]

\* Settings(None, self._settings, self._callbacks): a copy of the settings
\* and of the list of callbacks, no file, an empty stack.
Settings_new(h, self) ==
    Append(h, SettingsObject(h[self].settings, h[self].callbacks, 0, <<>>))

\* tmp.set(name, ...) of Settings.temporary, tmp being the last object of
\* the heap: the context manager new_settings(tmp), or the exception of set.
temporary_set(h, has_name, name, argv, kwargs, optimize) ==
    IF ~has_name THEN Returned(h, Ok(Ref(Len(h))))
    ELSE Then(settings_set(h, Len(h), name, argv, kwargs, optimize, TRUE),
              LAMBDA h1, v1 : Returned(h1, Ok(Ref(Len(h)))))

\* Settings.temporary on the Settings at self (no forwarding)
temporary_of(h, self, has_name, name, argv, kwargs, optimize) ==
    temporary_set(Settings_new(h, self), has_name, name, argv, kwargs, optimize)

\* settings.temporary(name, *args, **kwargs)
settings_temporary(h, self, has_name, name, argv, kwargs, optimize) ==
    temporary_of(h, forward(h, self), has_name, name, argv, kwargs, optimize)

\* new_settings(s) up to its yield: SETTINGS._stack.append(s)
new_settings_enter(h, s) == [h EXCEPT ![SETTINGS].stack = Append(@, s)]

\* A pop that takes the oldest override.
stack_pop_First(stack) == Tail(stack)

\* list.pop() on a stack that is not empty
stack_pop(stack) == SubSeq(stack, 1, Len(stack) - 1)

\* new_settings(s) after its yield, which runs however the body ended:
\* SETTINGS._stack.pop(); SETTINGS._notify().  The pop of an empty stack
\* raises IndexError.
new_settings_exit(h) ==
    IF h[SETTINGS].stack = <<>> THEN Returned(h, Raise("IndexError", <<>>))
    ELSE Returned(notify([h EXCEPT ![SETTINGS].stack = stack_pop(@)], SETTINGS), Ok(None))

(***************************************************************************)
(* The call of substitute                                                  *)
(***************************************************************************)
NoReturn == Ok(None)

\* substitute(x, vars, ignore_missing).  A call that repeats an ancestor's
\* string recurses without bound ("Unbounded"): it ends only when the
\* interpreter's stack is used up ("overflow", a RecursionError of the
\* interpreter at whatever depth its stack allows), never by a result or an
\* error of the code.
CallSubstitute ==
    /\ pc = "ready"
    /\ LET r == substitute(heap, args.x, args.vars, args.ignore_missing)
       IN  /\ heap' = r.h
           /\ pc' = IF r.exc = "Unbounded" THEN "overflow" ELSE "done"
           /\ ret' = IF r.exc = "Unbounded" THEN Raise("RecursionError", r.v.s)
                     ELSE [exc |-> r.exc, v |-> r.v]
    /\ UNCHANGED <<environ, strftime_pads, args>>

\* hdates_from_date(date, start_year, end_year)
CallHdates ==
    /\ pc = "ready"
    /\ ret' = hdates_from_date(args.date, args.start_year, args.end_year)
    /\ pc' = "done"
    /\ UNCHANGED <<heap, environ, strftime_pads, args>>

\* expand(values)
CallExpand ==
    /\ pc = "ready"
    /\ LET r == expand(heap, args.values)
       IN  /\ heap' = r.h
           /\ ret' = [exc |-> r.exc, v |-> r.v]
    /\ pc' = "done"
    /\ UNCHANGED <<environ, strftime_pads, args>>

\* The outcome of a method of Config, with the name of the method.
Outcome(op, r) == [exc |-> r.exc, v |-> r.v, op |-> op, yields |-> r.yields]

\* LoadersConfig(config), run by an interpreter that optimizes or not
CallLoadersConfig ==
    /\ pc = "ready"
    /\ LET r == LoadersConfig_new(heap, args.config, args.optimize)
       IN  /\ heap' = r.h
           /\ ret' = [exc |-> r.exc, v |-> r.v]
    /\ pc' = "done"
    /\ UNCHANGED <<environ, strftime_pads, args>>

\* list(config.iter_configs())
CallIterConfigs ==
    /\ pc = "ready"
    /\ \E r \in {iter_configs(heap, args.self)} :
          /\ heap' = r.h
          /\ ret' = Outcome("iter_configs", r)
    /\ pc' = "done"
    /\ UNCHANGED <<environ, strftime_pads, args>>

\* list(config._iter_loops())
CallIterLoops ==
    /\ pc = "ready"
    /\ \E r \in {iter_loops(heap, args.self)} :
          /\ heap' = r.h
          /\ ret' = Outcome("_iter_loops", r)
    /\ pc' = "done"
    /\ UNCHANGED <<environ, strftime_pads, args>>

\* config._len_of_iter_loops()
CallLenOfIterLoops ==
    /\ pc = "ready"
    /\ \E r \in {len_of_iter_loops(heap, args.self)} :
          /\ heap' = r.h
          /\ ret' = Outcome("_len_of_iter_loops", r)
    /\ pc' = "done"
    /\ UNCHANGED <<environ, strftime_pads, args>>

\* The nodes that the steps below read and assign: the DictObj itself and
\* the DictObj that are its values or elements of its list values.
Nodes(h, self) ==
    {self}
    \cup {v \in {h[self.n].items[i] : i \in 1..Len(h[self.n].items)} :
             v.t = "ref" /\ h[v.n].t = "DictObj"}
    \cup UNION {{v \in {h[l.n].items[i] : i \in 1..Len(h[l.n].items)} :
                    v.t = "ref" /\ h[v.n].t = "DictObj"} :
                l \in {l \in {h[self.n].items[i] : i \in 1..Len(h[self.n].items)} :
                          l.t = "ref" /\ h[l.n].t = "list"}}

\* The names and the values of the reads and assignments.
AttrNames == {<<"a">>, <<"i", "t", "e", "m", "s">>, <<"n", "e", "w">>}

AttrValues == {Num(7)}

\* self = DictObj(value)
Construct ==
    /\ pc = "ready"
    /\ LET r == DictObj_new(heap, "DictObj", args.value)
       IN  /\ heap' = r.h
           /\ args' = [args EXCEPT !.self = r.v]
    /\ pc' = "built"
    /\ UNCHANGED <<environ, strftime_pads, ret>>

\* node.attr for a node of the tree
GetAttr ==
    /\ pc \in {"built", "read"}
    /\ \E node \in Nodes(heap, args.self), attr \in AttrNames :
          ret' = [exc |-> getattr(heap, node, attr).exc, v |-> getattr(heap, node, attr).v,
                  node |-> node, attr |-> attr]
    /\ pc' = "read"
    /\ UNCHANGED <<heap, environ, strftime_pads, args>>

\* node.attr = value
SetAttr ==
    /\ pc \in {"built", "read"}
    /\ \E node \in Nodes(heap, args.self), attr \in AttrNames, value \in AttrValues :
          heap' = setattr(heap, node, attr, value)
    /\ pc' = "built"
    /\ ret' = NoReturn
    /\ UNCHANGED <<environ, strftime_pads, args>>

\* node[key] = value
SetKey ==
    /\ pc \in {"built", "read"}
    /\ \E node \in Nodes(heap, args.self), key \in AttrNames, value \in AttrValues :
          heap' = [heap EXCEPT ![node.n] = SetItem(heap[node.n], key, value)]
    /\ pc' = "built"
    /\ ret' = NoReturn
    /\ UNCHANGED <<environ, strftime_pads, args>>

(***************************************************************************)
(* Inputs                                                                  *)
(***************************************************************************)
Missing == [t |-> "missing", s |-> <<>>, n |-> 0, d |-> <<>>]

\* The mapping that binds names[i] to vals[i] where vals[i] is not Missing.
Mapping(names, vals) ==
    [k \in {names[i] : i \in {j \in 1..Len(names) : vals[j] # Missing}} |->
        vals[CHOOSE i \in 1..Len(names) : names[i] = k]]

MaxSegs == 3

\* The segments a string is made of: literal text and the placeholders of a
\* lower-case, a mixed-case and an upper-case name.  No segment runs into
\* the next one, so a string has one sequence of segments.
Pieces == {<<"-">>, <<"$", "a">>, <<"$", "b", "B">>, <<"$", "B">>}

RECURSIVE PieceSeqs(_)
PieceSeqs(n) ==
    IF n = 0 THEN {<<>>}
    ELSE LET shorter == PieceSeqs(n - 1)
         IN  shorter \cup {Append(q, p) : q \in {q \in shorter : Len(q) = n - 1},
                                          p \in Pieces}

Templates == PieceSeqs(MaxSegs)

StringInputs == {Concat(t) : t \in Templates}

\* The segments of an input string.
TemplateOf == [x \in StringInputs |-> CHOOSE t \in Templates : Concat(t) = x]

VarNames == <<<<"a">>, <<"b", "B">>, <<"c">>, <<"B">>>>

\* vars: a plain value, a chain a -> $bB -> $c -> 3, a cycle a -> $bB -> $a,
\* a value that holds its own placeholder, a number, an upper-case name.
VarsInputs ==
    {Mapping(VarNames, <<va, vb, vc, vB>>) :
        va \in {Missing, Str(<<"1">>), Str(<<"$", "b", "B">>), Str(<<"-", "$", "a">>)},
        vb \in {Missing, Num(2), Str(<<"$", "a">>), Str(<<"$", "c">>)},
        vc \in {Missing, Str(<<"3">>)},
        vB \in {Missing, Str(<<"4", "3">>)}}

EnvNames == <<<<"B">>, <<"b", "B">>>>

\* os.environ: empty, or with an upper-case and a mixed-case name.
EnvInputs ==
    {Mapping(EnvNames, <<Missing, Missing>>),
     Mapping(EnvNames, <<Str(<<"4", "2">>), Str(<<"9">>)>>)}

InitStr ==
    /\ pc = "ready"
    /\ heap = <<>>
    /\ environ \in EnvInputs
    /\ strftime_pads = FALSE
    /\ \E x \in StringInputs, vs \in VarsInputs, ign \in BOOLEAN :
          args = [x |-> Str(x), vars |-> vs, ignore_missing |-> ign]
    /\ ret = NoReturn

MaxWidth == 2

\* The key of a dict's i-th item; the first one looks like a placeholder.
KeyName(i) == IF i = 1 THEN <<"$", "a">> ELSE <<"k">> \o NatDigits(i)

TList(items) == Cell("list", <<>>, items)

TTuple(items) == Cell("tuple", <<>>, items)

TDict(items) == Cell("dict", [i \in 1..Len(items) |-> KeyName(i)], items)

TreeLeaves == {Str(<<"-">>), Str(<<"$", "a">>), Num(1), None}

\* The elements of a container: the leaves and some containers.
TreeElements ==
    TreeLeaves \cup {TList(<<>>), TList(<<Str(<<"$", "a">>)>>),
                     TTuple(<<Str(<<"-">>)>>), TDict(<<Str(<<"$", "b", "B">>)>>)}

RECURSIVE ElementSeqs(_)
ElementSeqs(n) ==
    IF n = 0 THEN {<<>>}
    ELSE LET shorter == ElementSeqs(n - 1)
         IN  shorter \cup {Append(q, e) : q \in {q \in shorter : Len(q) = n - 1},
                                          e \in TreeElements}

\* The input trees: an element, or a list, a tuple or a dict of up to
\* MaxWidth elements.
TreeInputs ==
    TreeElements
    \cup {TList(q) : q \in ElementSeqs(MaxWidth)}
    \cup {TTuple(q) : q \in ElementSeqs(MaxWidth)}
    \cup {TDict(q) : q \in ElementSeqs(MaxWidth)}

TreeVarsInputs ==
    {Mapping(<<<<"a">>, <<"b", "B">>>>, <<va, vb>>) :
        va \in {Missing, Str(<<"1">>), Str(<<"$", "b", "B">>)},
        vb \in {Missing, Num(2)}}

InitTree ==
    /\ pc = "ready"
    /\ environ \in EnvInputs
    /\ strftime_pads = FALSE
    /\ \E t \in TreeInputs, vs \in TreeVarsInputs, ign \in BOOLEAN :
          /\ heap = Store(<<>>, t).h
          /\ args = [x |-> Store(<<>>, t).v, vars |-> vs, ignore_missing |-> ign]
    /\ ret = NoReturn

MaxArgs == 3

\* The arguments written in a function call: placeholders and literals.
ArgPieces == {<<"$", "d", "a", "t", "e">>, <<"2", "0", "1", "9">>, <<"$", "y">>}

RECURSIVE ArgSeqs(_)
ArgSeqs(n) ==
    IF n = 0 THEN {<<>>}
    ELSE LET shorter == ArgSeqs(n - 1)
         IN  shorter \cup {Append(q, p) : q \in {q \in shorter : Len(q) = n - 1},
                                          p \in ArgPieces}

nofunc_name == <<"n", "o", "f", "u", "n", "c">>

\* What stands around the call and between its arguments.
Dressings ==
    {[pre |-> <<>>, sep |-> <<",">>, post |-> <<>>],
     [pre |-> <<"x", " ">>, sep |-> <<" ", ",", " ">>, post |-> <<"-">>]}

CallTemplates ==
    {[fname |-> f, args |-> q, dress |-> dr] :
        f \in {hdates_name, nofunc_name}, q \in ArgSeqs(MaxArgs), dr \in Dressings}

RECURSIVE JoinWith(_, _)
\* sep.join(seq)
JoinWith(seq, sep) ==
    IF seq = <<>> THEN <<>>
    ELSE IF Len(seq) = 1 THEN seq[1]
    ELSE seq[1] \o sep \o JoinWith(Tail(seq), sep)

\* The string of a call template: pre $fname(arg sep arg ...) post.
CallString(t) ==
    t.dress.pre \o <<"$">> \o t.fname \o <<"(">> \o JoinWith(t.args, t.dress.sep)
    \o <<")">> \o t.dress.post

CallStrings == {CallString(t) : t \in CallTemplates}

CallTemplateOf == [x \in CallStrings |-> CHOOSE t \in CallTemplates : CallString(t) = x]

CallVarsInputs ==
    {Mapping(<<<<"d", "a", "t", "e">>, <<"y">>>>, <<vd, vy>>) :
        vd \in {Missing,
                Str(<<"2", "0", "2", "3", "-", "0", "5", "-", "1", "2">>),
                Str(<<"2", "0", "2", "0", "-", "0", "2", "-", "2", "9">>)},
        vy \in {Missing, Str(<<"2", "0", "2", "0">>)}}

InitCall ==
    /\ pc = "ready"
    /\ heap = <<>>
    /\ environ = Mapping(EnvNames, <<Missing, Missing>>)
    /\ strftime_pads \in BOOLEAN
    /\ \E x \in CallStrings, vs \in CallVarsInputs, ign \in BOOLEAN :
          args = [x |-> Str(x), vars |-> vs, ignore_missing |-> ign]
    /\ ret = NoReturn

\* hdates_from_date: dates with and without a time of day, 29 February, a
\* date given as text; years as ints or as text, around the ends of the
\* calendar, and arguments that are not years.
MaxSpan == 2

DayInputs == {<<2020, 1, 1>>, <<2020, 2, 28>>, <<2020, 2, 29>>, <<2020, 12, 31>>,
              <<2023, 1, 1>>, <<2023, 2, 28>>, <<2023, 12, 31>>}

TimeInputs == {<<0, 0, 0>>, <<1, 0, 0>>, <<0, 1, 0>>, <<0, 0, 1>>}

DateInputs ==
    {Datetime(d[1], d[2], d[3], t[1], t[2], t[3]) : d \in DayInputs, t \in TimeInputs}
    \cup {Str(<<"2", "0", "2", "3", "-", "0", "5", "-", "1", "2">>),
          Str(<<"2", "0", "2", "0", "-", "0", "2", "-", "2", "9">>)}

YearBases == {0, 1, 998, 2019, 9998}

YearReprs(n) == {Num(n), Str(IntStr(n))}

NotYears == {Str(<<"2", "0", "x">>), Str(<<>>), Num(0 - 1), None}

YearPairs ==
    UNION {YearReprs(b) \X YearReprs(b + k) : b \in YearBases, k \in (0 - 1)..MaxSpan}
    \cup (NotYears \X YearReprs(2020))
    \cup (YearReprs(2020) \X NotYears)

InitHdates ==
    /\ pc = "ready"
    /\ heap = <<>>
    /\ environ = Mapping(EnvNames, <<Missing, Missing>>)
    /\ strftime_pads \in BOOLEAN
    /\ \E d \in DateInputs, ys \in YearPairs :
          args = [date |-> d, start_year |-> ys[1], end_year |-> ys[2]]
    /\ ret = NoReturn

\* expand: the range form with start and stop within RangeMax of zero and
\* steps of both signs, absent and zero; lists; the daily and the monthly
\* form; values with no form.
RangeMax == 3

StepInputs == {Missing, Num(0 - 2), Num(0 - 1), Num(0), Num(1), Num(2)}

DictOf(keys, items) ==
    LET present == {i \in 1..Len(keys) : items[i] # Missing}
        ith[k \in 0..Len(keys)] ==
            IF k = 0 THEN <<>>
            ELSE IF k \in present THEN Append(ith[k - 1], k) ELSE ith[k - 1]
        idx == ith[Len(keys)]
    IN  Cell("dict", [i \in 1..Len(idx) |-> keys[idx[i]]],
                     [i \in 1..Len(idx) |-> items[idx[i]]])

RangeInputs ==
    {DictOf(<<k_start, k_stop, k_step>>, <<Num(a), Num(b), st>>) :
        a \in (0 - RangeMax)..RangeMax, b \in (0 - RangeMax)..RangeMax, st \in StepInputs}

DayTexts == {<<"2", "0", "1", "9", "-", "1", "2", "-", "3", "1">>,
             <<"2", "0", "2", "0", "-", "0", "1", "-", "3", "0">>,
             <<"2", "0", "2", "0", "-", "0", "2", "-", "0", "1">>,
             <<"2", "0", "2", "0", "-", "0", "2", "-", "0", "2">>}

DatesInputs ==
    {DictOf(<<k, k_step>>,
            <<DictOf(<<k_start, k_stop>>, <<a, b>>), Missing>>) :
        k \in {k_monthly, k_daily},
        a \in {Str(t) : t \in DayTexts} \cup {Missing},
        b \in {Str(t) : t \in DayTexts} \cup {Missing, Str(<<"x">>)}}

OtherInputs ==
    {TList(<<Num(1), Num(2)>>), TList(<<>>), TTuple(<<Num(1)>>), Num(3),
     Str(<<"1">>), DictOf(<<k_start>>, <<Num(1)>>), DictOf(<<>>, <<>>),
     DictOf(<<k_daily>>, <<Num(1)>>)}

ExpandInputs == RangeInputs \cup DatesInputs \cup OtherInputs

InitExpand ==
    /\ pc = "ready"
    /\ environ = Mapping(EnvNames, <<Missing, Missing>>)
    /\ strftime_pads = FALSE
    /\ \E t \in ExpandInputs :
          /\ heap = Store(<<>>, t).h
          /\ args = [values |-> Store(<<>>, t).v]
    /\ ret = NoReturn

\* Config documents: the loop section absent, null, or a mapping of up to
\* MaxLoopVars variables, each with a domain; a body whose strings name the
\* loop variables, a variable that is not bound, or nothing.
MaxLoopVars == 2

LoopVarName(i) == <<"v">> \o NatDigits(i)

LoopDomains ==
    {TList(<<Str(<<"a">>), Num(2)>>),
     TList(<<>>),
     DictOf(<<k_start, k_stop>>, <<Num(1), Num(2)>>),
     DictOf(<<k_start, k_stop, k_step>>, <<Num(1), Num(3), Num(2)>>),
     DictOf(<<k_daily>>,
            <<DictOf(<<k_start, k_stop>>,
                     <<Str(<<"2", "0", "2", "0", "-", "0", "1", "-", "3", "0">>),
                       Str(<<"2", "0", "2", "0", "-", "0", "2", "-", "0", "1">>)>>)>>),
     Num(3)}

RECURSIVE DomainSeqs(_)
\* The sequences of exactly n domains.
DomainSeqs(n) ==
    IF n = 0 THEN {<<>>}
    ELSE {Append(q, d) : q \in DomainSeqs(n - 1), d \in LoopDomains}

LoopInputs ==
    {Missing, None}
    \cup UNION {{Cell("dict", [i \in 1..n |-> LoopVarName(i)], q) : q \in DomainSeqs(n)} :
                   n \in 0..MaxLoopVars}

BodyInputs ==
    {Str(<<"$", "v", "1">>), Str(<<"$", "v", "1", "-", "$", "v", "2">>),
     Str(<<"-">>), Str(<<"$", "q">>)}

DocInputs ==
    {DictOf(<<k_loop, <<"x">>, <<"y">>>>,
            <<l, b, IF nested THEN TList(<<DictOf(<<<<"z">>>>, <<b>>)>>) ELSE Missing>>) :
        l \in LoopInputs, b \in BodyInputs, nested \in BOOLEAN}

InitConfig ==
    /\ pc = "ready"
    /\ environ = Mapping(EnvNames, <<Missing, Missing>>)
    /\ strftime_pads = FALSE
    /\ \E doc \in DocInputs :
          LET s == Store(<<>>, doc)
              c == Config_new(s.h, s.v)
          IN  /\ heap = c.h
              /\ args = [self |-> c.v]
    /\ ret = NoReturn

\* The structures DictObj is built from: a mapping whose value under 'a' is
\* a leaf wrapped up to MaxNest times in a mapping or in a list, with or
\* without a key named as an operation of dict.
MaxNest == 3

RECURSIVE Nestings(_)
\* The values with exactly n wrappings.
Nestings(n) ==
    IF n = 0 THEN {Num(1)}
    ELSE UNION {{DictOf(<<<<"b">>>>, <<x>>), TList(<<x, Num(2)>>)} : x \in Nestings(n - 1)}

RawInputs ==
    {DictOf(<<<<"a">>, <<"i", "t", "e", "m", "s">>>>, <<x, it>>) :
        x \in UNION {Nestings(n) : n \in 0..MaxNest}, it \in {Missing, Num(1)}}

InitDictObj ==
    /\ pc = "ready"
    /\ environ = Mapping(EnvNames, <<Missing, Missing>>)
    /\ strftime_pads = FALSE
    /\ \E raw \in RawInputs :
          /\ heap = Store(<<>>, raw).h
          /\ args = [value |-> Store(<<>>, raw).v, self |-> None]
    /\ ret = NoReturn

\* The documents LoadersConfig is built from: with or without each section
\* and each key the constructor reads, the axes given as a list or as a
\* mapping, the statistics naming an axis or not.
AxisA == <<"a">>

AxisB == <<"b">>

OrderByInputs ==
    {Missing, TList(<<Str(AxisA), Str(AxisB)>>),
     DictOf(<<AxisA, AxisB>>, <<TList(<<Num(1)>>), None>>)}

StatisticsInputs == {Missing, Str(AxisA), Str(AxisB), Str(<<"z">>)}

OutputInputs ==
    {Missing}
    \cup {DictOf(<<k_order, k_order_by, k_statistics, k_remapping, k_chunking, k_dtype,
                   k_flatten_values, k_append_axis>>,
                 <<o, ob, st, rm, ch, dt, fl, ax>>) :
            o \in {Missing, Str(AxisA)}, ob \in OrderByInputs, st \in StatisticsInputs,
            rm \in {Missing, DictOf(<<AxisA>>, <<Str(AxisB)>>)},
            ch \in {Missing, DictOf(<<AxisA>>, <<Num(1)>>)},
            dt \in {Missing, Str(<<"f", "8">>)},
            fl \in {Missing, Bool(TRUE)},
            ax \in {Missing, Num(3)}}

InputInputs == {Missing, DictOf(<<k_constants>>, <<Missing>>), DictOf(<<k_constants>>, <<Num(1)>>)}

LoadersInputs ==
    {DictOf(<<k_input, k_output, k_reading_chunks>>, <<i, o, rc>>) :
        i \in InputInputs, o \in OutputInputs, rc \in {Missing, Num(2)}}

InitLoaders ==
    /\ pc = "ready"
    /\ environ = Mapping(EnvNames, <<Missing, Missing>>)
    /\ strftime_pads = FALSE
    /\ \E doc \in LoadersInputs, optimize \in BOOLEAN :
          /\ heap = Store(<<>>, doc).h
          /\ args = [config |-> Store(<<>>, doc).v, optimize |-> optimize]
    /\ ret = NoReturn

NextLoaders == CallLoadersConfig

\* The calls of set: every kind of setting and a name that is none, values
\* of every type, well and badly formed numbers with units, none, one or two
\* positional arguments, with or without a keyword argument.
SetNames ==
    {"cache-directory", "styles-directories", "plotting-options",
     "number-of-download-threads", "maximum-cache-size", "maximum-cache-disk-usage",
     "url-download-timeout", "download-updated-urls", "no-such-setting"}

SetValues ==
    {Num(3), Str(<<"1", "m">>), Str(<<"1", "0", "K">>), Str(<<"5", "0", "%">>), Str(<<"x">>), Str(<<"1", " ", "2">>), None, Bool(TRUE),
     Cell("list", <<>>, <<Str(<<"q">>)>>), Cell("dict", <<AxisA>>, <<Num(1)>>)}

SetArgs == {<<>>} \cup {<<v>> : v \in SetValues} \cup {<<v, Num(1)>> : v \in {Num(3), Str(<<"q">>)}}

SetKwargs == {Cell("dict", <<>>, <<>>), Cell("dict", <<AxisA>>, <<Num(1)>>)}

\* The store as the module leaves it: SETTINGS with the defaults and its
\* file, and two callbacks that are not registered yet.
StoreAtImport ==
    <<SettingsObject(DEFAULTS, <<>>, 2, <<>>), FileObject(DEFAULTS, 0),
      CallbackObject(0), CallbackObject(0)>>

\* The store after the calls on_change(first callback), if early; with
\* settings.temporary("number-of-download-threads", 7) entered, if scoped;
\* on_change(second callback), if late.
StoreWith(early, scoped, late) ==
    LET h1 == IF early THEN on_change(StoreAtImport, SETTINGS, 3) ELSE StoreAtImport
        h2 == IF scoped
              THEN new_settings_enter(
                       settings_temporary(h1, SETTINGS, TRUE, "number-of-download-threads",
                                          <<Num(7)>>, Cell("dict", <<>>, <<>>), FALSE).h,
                       Len(h1) + 1)
              ELSE h1
    IN  IF late THEN on_change(h2, SETTINGS, 4) ELSE h2

\* settings.set(name, *args, **kwargs): args.optimize says whether the
\* interpreter strips the asserts, io_ok whether the write of the file works.
SetCall ==
    /\ pc = "ready"
    /\ \E name \in SetNames, argv \in SetArgs, kwargs \in SetKwargs, io_ok \in BOOLEAN :
          \E r \in {settings_set(heap, SETTINGS, name, argv, kwargs, args.optimize, io_ok)} :
             /\ heap' = r.h
             /\ ret' = [op |-> "set", exc |-> r.exc, v |-> r.v, name |-> name,
                        argv |-> argv, kwargs |-> kwargs]
    /\ pc' = "done"
    /\ UNCHANGED <<environ, strftime_pads, args>>

InitSet ==
    /\ pc = "ready"
    /\ environ = Mapping(EnvNames, <<Missing, Missing>>)
    /\ strftime_pads = FALSE
    /\ \E early \in BOOLEAN, scoped \in BOOLEAN, late \in BOOLEAN :
          heap = StoreWith(early, scoped, late)
    /\ args \in {[optimize |-> o] : o \in BOOLEAN}
    /\ ret = NoReturn

NextSet == SetCall

NextSubstitute == CallSubstitute

NextDictObj == Construct \/ GetAttr \/ SetAttr \/ SetKey

NextConfig == CallIterConfigs \/ CallIterLoops \/ CallLenOfIterLoops

NextHdates == CallHdates

NextExpand == CallExpand

SpecStr == InitStr /\ [][NextSubstitute]_state

SpecTree == InitTree /\ [][NextSubstitute]_state

SpecCall == InitCall /\ [][NextSubstitute]_state

SpecHdates == InitHdates /\ [][NextHdates]_state

SpecExpand == InitExpand /\ [][NextExpand]_state

SpecConfig == InitConfig /\ [][NextConfig]_state

SpecDictObj == InitDictObj /\ [][NextDictObj]_state

SpecLoaders == InitLoaders /\ [][NextLoaders]_state

SpecSet == InitSet /\ [][NextSet]_state

\* Scopes of temporary overrides in one thread: the calls made inside and
\* outside the with blocks, at most MaxOps of them in one run.
MaxOps == 4

ScopeNames == {"number-of-download-threads", "url-download-timeout"}

ScopeValues == {Num(3), Str(<<"1", "m">>)}

NoKwargs == Cell("dict", <<>>, <<>>)

\* What get returns for each of the names of the scopes.
ScopeGets(h) == [name \in ScopeNames |-> settings_get(h, SETTINGS, name)]

\* The with blocks that are open, the innermost last: what get returned and
\* how deep the stack was when the with statement began.
OpenScope(h) == [gets |-> ScopeGets(h), depth |-> Len(h[SETTINGS].stack)]

\* One more call made.
Called(op, r, has_name, name, argv) ==
    [op |-> op, exc |-> r.exc, v |-> r.v, has_name |-> has_name, name |-> name,
     argv |-> argv]

\* with settings.temporary(name, value): or with settings.temporary():, up
\* to the first statement of the body.  When temporary raises, no block is
\* entered.
ScopeEnter ==
    /\ args.ops < MaxOps
    /\ \E has_name \in BOOLEAN, name \in ScopeNames, value \in ScopeValues :
          \E r \in {settings_temporary(heap, SETTINGS, has_name, name, <<value>>, NoKwargs,
                                       args.optimize)} :
             /\ heap' = IF r.exc = "none" THEN new_settings_enter(r.h, r.v.n) ELSE r.h
             /\ args' = [args EXCEPT !.ops = @ + 1,
                                     !.scopes = IF r.exc = "none"
                                                THEN Append(@, OpenScope(heap)) ELSE @]
             /\ ret' = Called("enter", r, has_name, name, <<value>>)
    /\ UNCHANGED <<pc, environ, strftime_pads>>

\* settings.set(name, value), inside a with block or outside
ScopeSet ==
    /\ args.ops < MaxOps
    /\ \E name \in ScopeNames, value \in ScopeValues :
          \E r \in {settings_set(heap, SETTINGS, name, <<value>>, NoKwargs, args.optimize,
                                 TRUE)} :
             /\ heap' = r.h
             /\ args' = [args EXCEPT !.ops = @ + 1]
             /\ ret' = Called("set", r, TRUE, name, <<value>>)
    /\ UNCHANGED <<pc, environ, strftime_pads>>

\* settings.reset(name) or settings.reset(), inside a with block or outside
ScopeReset ==
    /\ args.ops < MaxOps
    /\ \E has_name \in BOOLEAN, name \in ScopeNames :
          \E r \in {settings_reset(heap, SETTINGS, has_name, name, TRUE)} :
             /\ heap' = r.h
             /\ args' = [args EXCEPT !.ops = @ + 1]
             /\ ret' = Called("reset", r, has_name, name, <<>>)
    /\ UNCHANGED <<pc, environ, strftime_pads>>

\* The end of the innermost with block, reached by its last statement or by
\* an exception of its body ("raise"): the finally of new_settings runs in
\* both cases, and the exception goes on.
ScopeExit ==
    /\ args.ops < MaxOps
    /\ args.scopes # <<>>
    /\ \E how \in {"exit", "raise"} :
          \E r \in {new_settings_exit(heap)} :
             /\ heap' = r.h
             /\ args' = [args EXCEPT !.ops = @ + 1,
                                     !.scopes = SubSeq(@, 1, Len(@) - 1)]
             /\ ret' = Called(how, r, FALSE, "", <<>>)
    /\ UNCHANGED <<pc, environ, strftime_pads>>

InitScopes ==
    /\ pc = "ready"
    /\ environ = Mapping(EnvNames, <<Missing, Missing>>)
    /\ strftime_pads = FALSE
    /\ heap = on_change(StoreAtImport, SETTINGS, 3)
    /\ args \in {[optimize |-> o, ops |-> 0, scopes |-> <<>>] : o \in BOOLEAN}
    /\ ret = NoReturn

NextScopes == ScopeEnter \/ ScopeSet \/ ScopeReset \/ ScopeExit

SpecScopes == InitScopes /\ [][NextScopes]_state

\* Two threads on the one store, each running
\*     with settings.temporary(name, value): settings.get(name)
\* args.threads has the locals of each thread: the name and the value of its
\* override, the outcome of the test of forward, the Settings it made, what
\* its get returned and the Settings its scope popped (0 while there is
\* none).  pc has the position of each thread.
Threads == {1, 2}

ThreadOverrides ==
    {<<"number-of-download-threads", Num(3)>>, <<"number-of-download-threads", Num(7)>>,
     <<"url-download-timeout", Num(3)>>, <<"url-download-timeout", Str(<<"1", "m">>)>>,
     <<"number-of-download-threads", Str(<<"1", "m">>)>>}

ThreadLocals(override) ==
    [name |-> override[1], value |-> override[2], tested |-> FALSE, tmp |-> 0,
     got |-> NoReturn, popped |-> 0]

\* The thread t goes to the position p with the locals l, the others stay.
ThreadGoes(t, p, l) ==
    /\ pc' = [pc EXCEPT ![t] = p]
    /\ args' = [args EXCEPT !.threads[t] = l]
    /\ UNCHANGED <<environ, strftime_pads>>

\* The test of forward in the call of settings.temporary
TemporaryTest ==
    \E t \in Threads :
       /\ pc[t] = "start"
       /\ ThreadGoes(t, "tested", [args.threads[t] EXCEPT !.tested = forward_test(heap, SETTINGS)])
       /\ UNCHANGED <<heap, ret>>

\* The rest of settings.temporary: on the top of the stack or on SETTINGS,
\* as tested.  An exception ends the thread before any scope.
TemporaryCall ==
    \E t \in Threads :
       /\ pc[t] = "tested"
       /\ \E r \in {Then(Returned(heap, forward_top(heap, SETTINGS, args.threads[t].tested)),
                         LAMBDA h, self :
                            temporary_of(h, self.n, TRUE, args.threads[t].name,
                                         <<args.threads[t].value>>, NoKwargs, FALSE))} :
             /\ heap' = r.h
             /\ ret' = [exc |-> r.exc, v |-> r.v]
             /\ ThreadGoes(t, IF r.exc = "none" THEN "made" ELSE "out",
                           [args.threads[t] EXCEPT !.tmp = IF r.exc = "none" THEN r.v.n ELSE 0])

\* The with statement enters new_settings(tmp): SETTINGS._stack.append(tmp)
ScopePush ==
    \E t \in Threads :
       /\ pc[t] = "made"
       /\ heap' = new_settings_enter(heap, args.threads[t].tmp)
       /\ ThreadGoes(t, "in", args.threads[t])
       /\ UNCHANGED ret

\* The test of forward in the call of settings.get inside the scope
GetTest ==
    \E t \in Threads :
       /\ pc[t] = "in"
       /\ ThreadGoes(t, "in_tested", [args.threads[t] EXCEPT !.tested = forward_test(heap, SETTINGS)])
       /\ UNCHANGED <<heap, ret>>

\* The rest of settings.get(name) inside the scope
GetCall ==
    \E t \in Threads :
       /\ pc[t] = "in_tested"
       /\ \E r \in {Then(Returned(heap, forward_top(heap, SETTINGS, args.threads[t].tested)),
                         LAMBDA h, self : Returned(h, get_of(h, self.n, args.threads[t].name)))} :
             /\ ret' = [exc |-> r.exc, v |-> r.v]
             /\ ThreadGoes(t, "got", [args.threads[t] EXCEPT !.got = [exc |-> r.exc, v |-> r.v]])
       /\ UNCHANGED heap

\* The end of the scope, first statement of the finally:
\* SETTINGS._stack.pop()
ScopePop ==
    \E t \in Threads :
       /\ pc[t] = "got"
       /\ heap[SETTINGS].stack # <<>>
       /\ heap' = [heap EXCEPT ![SETTINGS].stack = stack_pop(@)]
       /\ ThreadGoes(t, "popped",
                     [args.threads[t] EXCEPT !.popped = heap[SETTINGS].stack[Len(heap[SETTINGS].stack)]])
       /\ UNCHANGED ret

\* The end of the scope, second statement of the finally:
\* SETTINGS._notify()
ScopeNotify ==
    \E t \in Threads :
       /\ pc[t] = "popped"
       /\ heap' = notify(heap, SETTINGS)
       /\ ThreadGoes(t, "out", args.threads[t])
       /\ UNCHANGED ret

InitThreads ==
    /\ pc = [t \in Threads |-> "start"]
    /\ environ = Mapping(EnvNames, <<Missing, Missing>>)
    /\ strftime_pads = FALSE
    /\ heap = on_change(StoreAtImport, SETTINGS, 3)
    /\ \E first \in ThreadOverrides, second \in ThreadOverrides :
          args = [threads |-> <<ThreadLocals(first), ThreadLocals(second)>>]
    /\ ret = NoReturn

NextThreads ==
    \/ TemporaryTest
    \/ TemporaryCall
    \/ ScopePush
    \/ GetTest
    \/ GetCall
    \/ ScopePop
    \/ ScopeNotify

SpecThreads == InitThreads /\ [][NextThreads]_state

(***************************************************************************)
(* The source "constants": Constants of sources/constants.py.  A request   *)
(* is the dict that _request returns, its date a list of datetimes, its    *)
(* time and its number lists of int; lists and dicts are written here as   *)
(* cells that hold their elements.                                         *)
(***************************************************************************)
k_date == <<"d", "a", "t", "e">>

k_time == <<"t", "i", "m", "e">>

k_number == <<"n", "u", "m", "b", "e", "r">>

k_param == <<"p", "a", "r", "a", "m">>

k_valid_datetime == <<"v", "a", "l", "i", "d", "_", "d", "a", "t", "e", "t", "i", "m", "e">>

\* The attributes that getattr finds on a ConstantMaker.
MakerAttributes ==
    {<<"f", "i", "e", "l", "d">>,
     <<"s", "h", "a", "p", "e">>,
     <<"r", "e", "s", "o", "l", "u", "t", "i", "o", "n">>,
     <<"g", "r", "i", "d", "_", "p", "o", "i", "n", "t", "s">>,
     <<"e", "c", "e", "f", "_", "x", "y", "z">>,
     <<"l", "a", "t", "i", "t", "u", "d", "e", "_">>,
     <<"l", "a", "t", "i", "t", "u", "d", "e">>,
     <<"c", "o", "s", "_", "l", "a", "t", "i", "t", "u", "d", "e", "_">>,
     <<"c", "o", "s", "_", "l", "a", "t", "i", "t", "u", "d", "e">>,
     <<"s", "i", "n", "_", "l", "a", "t", "i", "t", "u", "d", "e", "_">>,
     <<"s", "i", "n", "_", "l", "a", "t", "i", "t", "u", "d", "e">>,
     <<"l", "o", "n", "g", "i", "t", "u", "d", "e", "_">>,
     <<"l", "o", "n", "g", "i", "t", "u", "d", "e">>,
     <<"c", "o", "s", "_", "l", "o", "n", "g", "i", "t", "u", "d", "e", "_">>,
     <<"c", "o", "s", "_", "l", "o", "n", "g", "i", "t", "u", "d", "e">>,
     <<"s", "i", "n", "_", "l", "o", "n", "g", "i", "t", "u", "d", "e", "_">>,
     <<"s", "i", "n", "_", "l", "o", "n", "g", "i", "t", "u", "d", "e">>,
     <<"e", "c", "e", "f", "_", "x">>,
     <<"e", "c", "e", "f", "_", "y">>,
     <<"e", "c", "e", "f", "_", "z">>,
     <<"j", "u", "l", "i", "a", "n", "_", "d", "a", "y">>,
     <<"c", "o", "s", "_", "j", "u", "l", "i", "a", "n", "_", "d", "a", "y">>,
     <<"s", "i", "n", "_", "j", "u", "l", "i", "a", "n", "_", "d", "a", "y">>,
     <<"l", "o", "c", "a", "l", "_", "t", "i", "m", "e">>,
     <<"c", "o", "s", "_", "l", "o", "c", "a", "l", "_", "t", "i", "m", "e">>,
     <<"s", "i", "n", "_", "l", "o", "c", "a", "l", "_", "t", "i", "m", "e">>,
     <<"i", "n", "s", "o", "l", "a", "t", "i", "o", "n">>,
     <<"t", "o", "a", "_", "i", "n", "c", "i", "d", "e", "n", "t", "_", "s", "o", "l", "a", "r", "_", "r", "a", "d", "i", "a", "t", "i", "o", "n">>,
     <<"c", "o", "s", "_", "s", "o", "l", "a", "r", "_", "z", "e", "n", "i", "t", "h", "_", "a", "n", "g", "l", "e">>}

ListOf(items) == Cell("list", <<>>, items)

\* str(time).isdigit() for an int
isdigit(time) == time >= 0

\* datetime.datetime(year, month, day, hour) for a date that exists
datetime_at(date, hour) ==
    IF hour \in 0..23 THEN Ok(Datetime(date.d[1], date.d[2], date.d[3], hour, 0, 0))
    ELSE Raise("ValueError", <<>>)

\* make_datetime(date, time)
make_datetime(date, time, optimize) ==
    IF time = None THEN Ok(date)
    ELSE IF date.d[4] # 0 \/ date.d[5] # 0 THEN Raise("ValueError", <<>>)
    ELSE IF ~optimize /\ ~isdigit(time.n) THEN Raise("AssertionError", <<>>)
    ELSE datetime_at(date, IF time.n > 24 THEN time.n \div 100 ELSE time.n)

\* itertools.product(dates, times), the first list the slower one
date_time_product(dates, times) ==
    [k \in 1..(Len(dates) * Len(times)) |->
        <<dates[((k - 1) \div Len(times)) + 1], times[((k - 1) % Len(times)) + 1]>>]

\* The list comprehension of find_dates: the datetimes of the pairs, or the
\* exception of the first pair that has one.
make_datetimes(pairs, optimize) ==
    IF \E k \in 1..Len(pairs) : make_datetime(pairs[k][1], pairs[k][2], optimize).exc # "none"
    THEN make_datetime(pairs[CHOOSE k \in 1..Len(pairs) :
                                /\ make_datetime(pairs[k][1], pairs[k][2], optimize).exc # "none"
                                /\ \A j \in 1..(k - 1) :
                                      make_datetime(pairs[j][1], pairs[j][2], optimize).exc = "none"][1],
                       pairs[CHOOSE k \in 1..Len(pairs) :
                                /\ make_datetime(pairs[k][1], pairs[k][2], optimize).exc # "none"
                                /\ \A j \in 1..(k - 1) :
                                      make_datetime(pairs[j][1], pairs[j][2], optimize).exc = "none"][2],
                       optimize)
    ELSE Ok(ListOf([k \in 1..Len(pairs) |-> make_datetime(pairs[k][1], pairs[k][2], optimize).v]))

\* A check of the dates that lets duplicates through.
assert_distinct_Off(dates, optimize) == dates

\* assert len(set(dates)) == len(dates)
assert_distinct(dates, optimize) ==
    IF dates.exc # "none" THEN dates
    ELSE IF ~optimize /\ Cardinality({dates.v.items[k] : k \in 1..Len(dates.v.items)})
                            # Len(dates.v.items)
    THEN Raise("AssertionError", <<>>)
    ELSE dates

\* source_or_dataset.unique_values(key)[key], after the assert that the
\* source has the method; without the assert the call raises.
unique_values(source, key, optimize) ==
    IF ~source.has_unique_values
    THEN Raise(IF optimize THEN "AttributeError" ELSE "AssertionError", <<>>)
    ELSE Ok(DictGet(source.unique_values, key))

\* find_dates(source_or_dataset)
find_dates(request, source, optimize) ==
    IF ~DictHas(request, k_date) /\ DictHas(request, k_time) THEN Raise("ValueError", <<>>)
    ELSE IF DictHas(request, k_date) /\ ~DictHas(request, k_time)
    THEN Ok(DictGet(request, k_date))
    ELSE IF DictHas(request, k_date) /\ DictHas(request, k_time)
    THEN assert_distinct(
             make_datetimes(date_time_product(DictGet(request, k_date).items,
                                              DictGet(request, k_time).items), optimize),
             optimize)
    ELSE unique_values(source, k_valid_datetime, optimize)

\* find_numbers(source_or_dataset)
find_numbers(request, source, optimize) ==
    IF DictHas(request, k_number) THEN Ok(DictGet(request, k_number))
    ELSE unique_values(source, k_number, optimize)

\* if not isinstance(x, (tuple, list)): x = [x]
as_list(x) == IF x.t \in {"list", "tuple"} THEN x ELSE ListOf(<<x>>)

\* self.params
find_params(request) ==
    IF ~DictHas(request, k_param) THEN Raise("KeyError", k_param)
    ELSE Ok(as_list(DictGet(request, k_param)))

\* getattr(self.maker, param)
proc_of(param) ==
    IF param.t # "str" THEN Raise("TypeError", <<>>)
    ELSE IF param.s \notin MakerAttributes THEN Raise("AttributeError", param.s)
    ELSE Ok(param)

\* self.procs: the first param without attribute ends the comprehension
find_procs(params) ==
    IF \E k \in 1..Len(params.items) : proc_of(params.items[k]).exc # "none"
    THEN proc_of(params.items[CHOOSE k \in 1..Len(params.items) :
                                 /\ proc_of(params.items[k]).exc # "none"
                                 /\ \A j \in 1..(k - 1) : proc_of(params.items[j]).exc = "none"])
    ELSE Ok(params)

\* A Constants: its request, dates, params, numbers and _len.
ConstantsObject(request, dates, params, numbers) ==
    [t |-> "Constants", request |-> request, dates |-> dates, params |-> params,
     numbers |-> numbers,
     len |-> Len(dates.items) * Len(params.items) * Len(numbers.items)]

\* Constants.__len__
Constants_len(self) == self.len

\* The end of Constants.__init__, from self.numbers on
Constants_numbers(request, source, optimize, dates, params) ==
    IF find_numbers(request, source, optimize).exc # "none"
    THEN find_numbers(request, source, optimize)
    ELSE IF find_procs(params).exc # "none" THEN find_procs(params)
    ELSE Ok(ConstantsObject(request, dates, params,
                            as_list(find_numbers(request, source, optimize).v)))

\* Constants.__init__ from self.params on
Constants_params(request, source, optimize, dates) ==
    IF find_params(request).exc # "none" THEN find_params(request)
    ELSE Constants_numbers(request, source, optimize, dates, find_params(request).v)

\* Constants(source_or_dataset, request), request being what _request
\* returns: the new object, or the exception of __init__.
Constants_init(request, source, optimize) ==
    IF find_dates(request, source, optimize).exc # "none"
    THEN find_dates(request, source, optimize)
    ELSE Constants_params(request, source, optimize, find_dates(request, source, optimize).v)

\* index_to_coords(index, shape) of climetlab.indexing.cube for a shape of
\* three: the coordinates of index in row-major order.
index_to_coords(index, shape) ==
    <<(index \div (shape[2] * shape[3])) % shape[1],
      (index \div shape[3]) % shape[2],
      index % shape[3]>>

\* The ConstantField of a date, a param and a number
ConstantField(date, param, number) ==
    [t |-> "ConstantField", date |-> date, param |-> param, number |-> number]

\* The field at the coordinates c
field_at(self, c) ==
    ConstantField(self.dates.items[c[1] + 1], self.params.items[c[2] + 1],
                  self.numbers.items[c[3] + 1])

\* if i >= self._len
getitem_bound(self, i) == i >= self.len

\* Constants._getitem(i)
Constants_getitem(self, i) ==
    IF getitem_bound(self, i) THEN Raise("IndexError", <<>>)
    ELSE Ok(field_at(self, index_to_coords(i, <<Len(self.dates.items),
                                                 Len(self.params.items),
                                                 Len(self.numbers.items)>>)))

\* The requests and the sources of the calls: dates at midnight and not,
\* twice the same date, times as hours and as hhmm, two times of the same
\* hour, a time that is no hour, a negative time; one param, a list or a
\* tuple of them, a param that is no attribute; with and without numbers,
\* and a source with and without unique_values.
MaxIndex == 4

Day1 == Datetime(2020, 1, 1, 0, 0, 0)

Day2 == Datetime(2020, 1, 2, 0, 0, 0)

Day1At6 == Datetime(2020, 1, 1, 6, 0, 0)

DateLists == {<<>>, <<Day1>>, <<Day1, Day2>>, <<Day1, Day1>>, <<Day1At6>>}

TimeLists ==
    {<<Num(0)>>, <<Num(6), Num(18)>>, <<Num(6), Num(600)>>, <<Num(24)>>, <<Num(0 - 6)>>}

NumberLists == {<<Num(0)>>, <<Num(0), Num(1)>>}

ParamValues ==
    {Str(<<"c", "o", "s", "_", "l", "a", "t", "i", "t", "u", "d", "e">>), ListOf(<<Str(<<"c", "o", "s", "_", "l", "a", "t", "i", "t", "u", "d", "e">>), Str(<<"s", "i", "n", "_", "l", "a", "t", "i", "t", "u", "d", "e">>)>>),
     Cell("tuple", <<>>, <<Str(<<"s", "i", "n", "_", "l", "a", "t", "i", "t", "u", "d", "e">>)>>), ListOf(<<Str(<<"c", "o", "s", "_", "l", "a", "t", "i", "t", "u", "d", "e">>), Str(<<"x">>)>>)}

\* has: which of the four keys the request has.
RequestOf(has, dates, times, numbers, param) ==
    DictOf(<<k_date, k_time, k_number, k_param>>,
           <<IF has[1] THEN ListOf(dates) ELSE Missing,
             IF has[2] THEN ListOf(times) ELSE Missing,
             IF has[3] THEN ListOf(numbers) ELSE Missing,
             IF has[4] THEN param ELSE Missing>>)

Sources ==
    {[has_unique_values |-> FALSE, unique_values |-> Cell("dict", <<>>, <<>>)],
     [has_unique_values |-> TRUE,
      unique_values |-> Cell("dict", <<k_number, k_valid_datetime>>,
                             <<Cell("tuple", <<>>, <<Num(0), Num(1), Num(2)>>),
                               ListOf(<<Day1At6, Day2>>)>>)]}

\* Constants(source, request)
ConstantsNew ==
    /\ pc = "ready"
    /\ \E r \in {Constants_init(args.request, args.source, args.optimize)} :
          /\ heap' = IF r.exc = "none" THEN <<r.v>> ELSE heap
          /\ ret' = [op |-> "init", i |-> 0, exc |-> r.exc,
                     v |-> IF r.exc = "none" THEN None ELSE r.v]
          /\ pc' = IF r.exc = "none" THEN "made" ELSE "failed"
    /\ UNCHANGED <<environ, strftime_pads, args>>

\* len(ds)
ConstantsLen ==
    /\ pc = "made"
    /\ ret' = [op |-> "len", i |-> 0, exc |-> "none", v |-> Num(Constants_len(heap[1]))]
    /\ UNCHANGED <<pc, heap, environ, strftime_pads, args>>

\* ds._getitem(i)
ConstantsGetItem ==
    /\ pc = "made"
    /\ \E i \in 0..MaxIndex :
          \E r \in {Constants_getitem(heap[1], i)} :
             ret' = [op |-> "getitem", i |-> i, exc |-> r.exc, v |-> r.v]
    /\ UNCHANGED <<pc, heap, environ, strftime_pads, args>>

InitConstants ==
    /\ pc = "ready"
    /\ environ = Mapping(EnvNames, <<Missing, Missing>>)
    /\ strftime_pads = FALSE
    /\ heap = <<>>
    /\ \E has \in [1..4 -> BOOLEAN], dates \in DateLists, times \in TimeLists,
          numbers \in NumberLists, param \in ParamValues, source \in Sources,
          optimize \in BOOLEAN :
          args = [request |-> RequestOf(has, dates, times, numbers, param),
                  source |-> source, optimize |-> optimize]
    /\ ret = NoReturn

NextConstants == ConstantsNew \/ ConstantsLen \/ ConstantsGetItem

SpecConstants == InitConstants /\ [][NextConstants]_state

(***************************************************************************)
(* Claims about substitute on strings (SpecStr)                            *)
(***************************************************************************)
IsPlaceholder(p) == p[1] = "$"

\* A name is entirely upper-case when none of its characters is lower-case.
NameIsUpper(name) == \A i \in 1..Len(name) : ~IsLower(name[i])

\* The scope the claims give a placeholder: the environment for an
\* upper-case name, vars for every other name.
ScopeOf(p) == IF NameIsUpper(Tail(p)) THEN environ ELSE args.vars

IsBound(p) == Tail(p) \in DOMAIN ScopeOf(p)

BoundValue(p) == ScopeOf(p)[Tail(p)]

IsPlain(v) == ~(v.t = "str" /\ Contains(v.s, "$"))

\* C3: a single plain placeholder is resolved against os.environ exactly
\* when its name is entirely upper-case and against vars otherwise: with a
\* binding (holding no "$") in its own scope the call returns that value,
\* with none it is a missing variable, whatever the other scope binds.
C3_ScopeByCase ==
    (pc = "done" /\ args.x.s \in Pieces /\ IsPlaceholder(args.x.s)) =>
        IF IsBound(args.x.s)
        THEN IsPlain(BoundValue(args.x.s))
                => ret = Ok(Str(PyStr(BoundValue(args.x.s))))
        ELSE IF args.ignore_missing THEN ret = Ok(args.x)
        ELSE ret = Raise("KeyError", Tail(args.x.s))

\* C3's case: '$B' with B bound in vars only fails as a missing variable,
\* as substitute({'bar': '$BAR'}, {'BAR': '43'}) does.
C3_Witness ==
    /\ pc = "done"
    /\ args.x = Str(<<"$", "B">>)
    /\ <<"B">> \in DOMAIN args.vars
    /\ <<"B">> \notin DOMAIN environ
    /\ ~args.ignore_missing
    /\ ret = Raise("KeyError", <<"B">>)

\* The segments of the call's string.
Template == TemplateOf[args.x.s]

\* Every bound placeholder of the string has a value without "$".
PlainBindings ==
    \A i \in 1..Len(Template) :
        (IsPlaceholder(Template[i]) /\ IsBound(Template[i]))
            => IsPlain(BoundValue(Template[i]))

MissingAt(i) == IsPlaceholder(Template[i]) /\ ~IsBound(Template[i])

\* The text the missing-binding policy puts at segment i: the value of a
\* bound placeholder, the segment itself otherwise.
PolicyText(i) ==
    IF IsPlaceholder(Template[i]) /\ IsBound(Template[i])
    THEN PyStr(BoundValue(Template[i]))
    ELSE Template[i]

\* C4: with a placeholder that has no binding in its scope, the call raises
\* KeyError for one of the missing names when ignore_missing is false; when
\* it is true the call returns the string with each missing placeholder
\* kept at its place and each bound placeholder replaced by its value.
C4_MissingPolicy ==
    (/\ pc = "done"
     /\ PlainBindings
     /\ \E i \in 1..Len(Template) : MissingAt(i)) =>
        IF args.ignore_missing
        THEN ret = Ok(Str(Concat([i \in 1..Len(Template) |-> PolicyText(i)])))
        ELSE /\ ret.exc = "KeyError"
             /\ \E i \in 1..Len(Template) : MissingAt(i) /\ ret.v.s = Tail(Template[i])

\* C4's case: under ignore_missing a missing placeholder is kept next to a
\* bound one that is replaced.
C4_Witness ==
    /\ pc = "done"
    /\ args.ignore_missing
    /\ PlainBindings
    /\ \E i, j \in 1..Len(Template) :
          MissingAt(i) /\ IsPlaceholder(Template[j]) /\ IsBound(Template[j])
    /\ ret.exc = "none"

\* substitute applied to a value, from outside any call.
Resolved(v) == substitute_scalar(v, args.vars, args.ignore_missing, {})

\* The text of segment i when its value is substituted again unless the
\* value equals `same`.
ResubText(i, same) ==
    IF IsPlaceholder(Template[i]) /\ IsBound(Template[i])
    THEN IF BoundValue(Template[i]) = same
         THEN PyStr(BoundValue(Template[i]))
         ELSE PyStr(Resolved(BoundValue(Template[i])).v)
    ELSE Template[i]

IsChain ==
    /\ <<"a">> \in DOMAIN args.vars /\ args.vars[<<"a">>] = Str(<<"$", "b", "B">>)
    /\ <<"b", "B">> \in DOMAIN args.vars /\ args.vars[<<"b", "B">>] = Str(<<"$", "c">>)
    /\ <<"c">> \in DOMAIN args.vars /\ args.vars[<<"c">>] = Str(<<"3">>)

C6_Terminates == pc # "overflow"

\* The string has a placeholder token: '$' followed by a word character.
HasPlaceholderToken(s) == \E i \in 1..(Len(s) - 1) : s[i] = "$" /\ IsWordChar(s[i + 1])

\* C24: a call with ignore_missing false that returns without error returns
\* a string with no placeholder token, whatever the values of vars are.
C24_FullyResolved ==
    (pc = "done" /\ ~args.ignore_missing /\ ret.exc = "none") =>
        ~HasPlaceholderToken(PyStr(ret.v))

(***************************************************************************)
(* Claims about substitute on trees (SpecTree)                             *)
(***************************************************************************)
\* The input tree.  The call leaves the input's cells as they were (C2), so
\* after the call the heap still holds it.
InputTree == Tree(heap, args.x)

NoDollar(tree) == \A leaf \in Leaves(tree) : IsPlain(leaf)

RECURSIVE Listed(_)
\* The tree with every tuple made a list of the same elements.
Listed(tree) ==
    IF IsContainer(tree)
    THEN Cell(IF tree.t = "tuple" THEN "list" ELSE tree.t, tree.keys,
              [i \in 1..Len(tree.items) |-> Listed(tree.items[i])])
    ELSE tree

\* C1 as stated: on a tree without "$" in any string leaf the call
\* returns a tree equal to its input.
C1_IdentityEqual ==
    (pc = "done" /\ NoDollar(InputTree)) =>
        ret.exc = "none" /\ PyEq(Tree(heap, ret.v), InputTree)

\* The second call: substitute applied to what the first call returned.
SecondCall == substitute(heap, ret.v, args.vars, args.ignore_missing)

\* C1, amended: on a tree without "$" in any string leaf the call returns
\* the input tree with each tuple turned into a list of the same elements
\* and everything else equal; a second call on a returned tree without "$"
\* returns an equal tree.
C1_IdentityUpToTuples ==
    /\ (pc = "done" /\ NoDollar(InputTree)) =>
          ret.exc = "none" /\ PyEq(Tree(heap, ret.v), Listed(InputTree))
    /\ (pc = "done" /\ ret.exc = "none" /\ NoDollar(Tree(heap, ret.v))) =>
          /\ SecondCall.exc = "none"
          /\ PyEq(Tree(SecondCall.h, SecondCall.v), Tree(heap, ret.v))

\* C1's case: a dict without "$" in its leaves that holds a container
\* has been returned, with vars not empty.
C1_Witness ==
    /\ pc = "done"
    /\ NoDollar(InputTree)
    /\ InputTree.t = "dict"
    /\ \E i \in 1..Len(InputTree.items) : IsContainer(InputTree.items[i])
    /\ DOMAIN args.vars # {}
    /\ ret.exc = "none"

\* C2: a call of substitute, returning or raising, leaves every cell of the
\* heap it was given, and its arguments, as they were; the containers of a
\* returned tree are all new cells.
C2_InputUntouched ==
    [][CallSubstitute =>
          /\ \A a \in 1..Len(heap) : heap'[a] = heap[a]
          /\ args' = args
          /\ ret'.exc = "none" => Refs(heap', ret'.v) \cap (1..Len(heap)) = {}
      ]_state

\* C2's cases: a container holding a container came back substituted, and
\* a call on a container raised.
C2_Witness ==
    /\ pc = "done"
    /\ args.x.t = "ref"
    /\ \E i \in 1..Len(heap[args.x.n].items) : heap[args.x.n].items[i].t = "ref"
    /\ ret.exc = "none"
    /\ ~PyEq(Tree(heap, ret.v), Listed(InputTree))

(***************************************************************************)
(* Claims about function-call placeholders (SpecCall)                      *)
(***************************************************************************)
\* The call the string was written as.
CallT == CallTemplateOf[args.x.s]

\* What substitute makes of one written argument.
ArgOutcome(p) ==
    IF ~IsPlaceholder(p) THEN Ok(Str(p))
    ELSE IF Tail(p) \in DOMAIN args.vars THEN Ok(Str(PyStr(args.vars[Tail(p)])))
    ELSE IF args.ignore_missing THEN Ok(Str(p))
    ELSE Raise("KeyError", Tail(p))

ArgFails(i) == ArgOutcome(CallT.args[i]).exc # "none"

\* hdates_from_date applied to the substituted arguments as written.
WrittenCall ==
    hdates_from_date(ArgOutcome(CallT.args[1]).v, ArgOutcome(CallT.args[2]).v,
                     ArgOutcome(CallT.args[3]).v)

\* C7: for '$hdates_from_date(a1, ..., an)' each argument is stripped and
\* substituted first (the first one that fails ends the call), the function
\* is called with the substituted arguments in their written order (any
\* number other than its three is a TypeError), and its result stands in
\* place of the whole segment, between the text before and after it.
C7_FunctionCall ==
    (pc = "done" /\ CallT.fname = hdates_name) =>
        IF \E i \in 1..Len(CallT.args) : ArgFails(i)
        THEN ret = ArgOutcome(CallT.args[
                      CHOOSE i \in 1..Len(CallT.args) :
                          ArgFails(i) /\ \A j \in 1..(i - 1) : ~ArgFails(j)])
        ELSE IF Len(CallT.args) # 3 THEN ret.exc = "TypeError"
        ELSE IF WrittenCall.exc # "none" THEN ret = WrittenCall
        ELSE ret = Ok(Str(CallT.dress.pre \o WrittenCall.v.s \o CallT.dress.post))

\* C7's case: '$hdates_from_date($date, 2019, $y)' inside other text, with
\* date and y bound, has been replaced by the two dates.
C7_Witness ==
    /\ pc = "done"
    /\ CallT.fname = hdates_name
    /\ CallT.args = <<<<"$", "d", "a", "t", "e">>, <<"2", "0", "1", "9">>, <<"$", "y">>>>
    /\ CallT.dress.pre # <<>>
    /\ ret.exc = "none"
    /\ Len(ret.v.s) = Len(CallT.dress.pre) + 21 + Len(CallT.dress.post)

\* C8: a call of a function that is not registered raises KeyError, with
\* ignore_missing false and with ignore_missing true.
C8_UnknownFunctionRaises ==
    (pc = "done" /\ CallT.fname \notin FunctionRegistry) => ret.exc = "KeyError"

(***************************************************************************)
(* hdates_from_date (SpecHdates)                                           *)
(***************************************************************************)
\* The calendar day of the date argument.
HDate == to_datetime(args.date).v

MidnightDate == HDate.d[4] = 0 /\ HDate.d[5] = 0 /\ HDate.d[6] = 0

YearsGiven == IsDigitStr(PyStr(args.start_year)) /\ IsDigitStr(PyStr(args.end_year))

FirstYear == PyInt(args.start_year)

LastYear == PyInt(args.end_year)

\* 'YYYY-MM-DD' for the day of the date argument in year y; the year is
\* written with four digits when padded, as it stands otherwise.
HDateText(y, padded) ==
    (IF padded THEN ZeroPad(y, 4) ELSE IntStr(y)) \o <<"-">>
    \o ZeroPad(HDate.d[2], 2) \o <<"-">> \o ZeroPad(HDate.d[3], 2)

\* The texts of the years first..last in increasing order, joined by '/'.
HDatesText(padded) ==
    JoinWith([k \in 1..(LastYear - FirstYear + 1) |-> HDateText(FirstYear + k - 1, padded)],
             <<"/">>)

\* The day of the date argument does not exist in some year of the range.
NoSuchDay ==
    \E y \in FirstYear..LastYear : HDate.d[3] > DaysInMonth(y, HDate.d[2])

\* C9 as written: for every date at midnight and years s <= e, the result
\* is 'YYYY-MM-DD' of that day for each year s..e in increasing order, joined
\* by '/'; an argument that is not a non-negative integer fails.
C9_HdatesEveryDate ==
    pc = "done" =>
        /\ (YearsGiven /\ MidnightDate /\ FirstYear <= LastYear)
              => ret = Ok(Str(HDatesText(TRUE)))
        /\ ~YearsGiven => ret.exc # "none"

\* C9, what the code does in its place: the result is as written when every year is in
\* 1000..9999 and the day exists in each of them; the call fails with
\* ValueError when a year is outside 1..9999 or the day (29 February) does
\* not exist in one of the years; a year below 1000 is written with four
\* digits or as it stands; an argument that is not a non-negative integer
\* fails with ValueError.
C9_HdatesWithinCalendar ==
    pc = "done" =>
        /\ (YearsGiven /\ MidnightDate /\ FirstYear <= LastYear) =>
              IF FirstYear < 1 \/ LastYear > 9999 \/ NoSuchDay
              THEN ret.exc = "ValueError"
              ELSE IF FirstYear >= 1000
              THEN ret = Ok(Str(HDatesText(TRUE)))
              ELSE ret \in {Ok(Str(HDatesText(TRUE))), Ok(Str(HDatesText(FALSE)))}
        /\ ~YearsGiven => ret.exc = "ValueError"

(***************************************************************************)
(* expand (SpecExpand)                                                     *)
(***************************************************************************)
InputValues == Tree(heap, args.values)

IsRangeForm ==
    /\ IsContainer(InputValues)
    /\ InputValues.t = "dict"
    /\ DictHas(InputValues, k_start)
    /\ DictHas(InputValues, k_stop)

RangeStart == DictGet(InputValues, k_start).n

RangeStop == DictGet(InputValues, k_stop).n

RangeStep == IF DictHas(InputValues, k_step) THEN DictGet(InputValues, k_step).n ELSE 1

\* start + k * step for k = 0, 1, ... comes to stop.
StopReachable == \E k \in 0..(2 * RangeMax + 1) : RangeStart + k * RangeStep = RangeStop

\* C10: a mapping with start and stop gives the integers from start to stop
\* inclusive in steps of step (1 when absent): it starts at start, goes by
\* step, holds nothing beyond stop, and holds stop when stop is reachable
\* from start by whole steps, for positive and for negative steps.
C10_RangeInclusive ==
    (pc = "done" /\ IsRangeForm /\ RangeStep # 0) =>
        /\ ret.exc = "none"
        /\ ret.v.t = "range"
        /\ \A i \in 1..Len(ret.v.d) : ret.v.d[i] = RangeStart + (i - 1) * RangeStep
        /\ \A i \in 1..Len(ret.v.d) :
              IF RangeStep > 0 THEN ret.v.d[i] <= RangeStop ELSE ret.v.d[i] >= RangeStop
        /\ StopReachable => \E i \in 1..Len(ret.v.d) : ret.v.d[i] = RangeStop

\* The mapping under key k of the input, when the input has the daily or the
\* monthly form with that key.
DatesOf(k) == DictGet(InputValues, k)

HasDatesForm(k) ==
    /\ IsContainer(InputValues)
    /\ InputValues.t = "dict"
    /\ ~IsRangeForm
    /\ DictHas(InputValues, k)
    /\ k = k_daily => ~DictHas(InputValues, k_monthly)
    /\ IsContainer(DatesOf(k))
    /\ DatesOf(k).t = "dict"
    /\ DictHas(DatesOf(k), k_start)
    /\ DictHas(DatesOf(k), k_stop)
    /\ to_datetime(DictGet(DatesOf(k), k_start)).exc = "none"
    /\ to_datetime(DictGet(DatesOf(k), k_stop)).exc = "none"

StartOf(k) == to_datetime(DictGet(DatesOf(k), k_start)).v

StopOf(k) == to_datetime(DictGet(DatesOf(k), k_stop)).v

RECURSIVE DaysBefore(_, _)
\* The days of year y in the months before month m.
DaysBefore(y, m) == IF m = 1 THEN 0 ELSE DaysBefore(y, m - 1) + DaysInMonth(y, m - 1)

\* The number of the calendar day of a date, counted from 1 January of year 1.
Ordinal(date) ==
    LET y == date.d[1] - 1
    IN  365 * y + (y \div 4) - (y \div 100) + (y \div 400)
        + DaysBefore(date.d[1], date.d[2]) + date.d[3]

\* The datetime that an ISO text 'YYYY-MM-DDTHH:MM:SS' names.
ParseIso(v) ==
    Datetime(ParseNat(SubSeq(v.s, 1, 4)), ParseNat(SubSeq(v.s, 6, 7)),
             ParseNat(SubSeq(v.s, 9, 10)), ParseNat(SubSeq(v.s, 12, 13)),
             ParseNat(SubSeq(v.s, 15, 16)), ParseNat(SubSeq(v.s, 18, 19)))

IsIsoText(v) == v.t = "str" /\ Len(v.s) = 19 /\ v.s = isoformat(ParseIso(v))

ResultTree == Tree(heap, ret.v)

IsListOf(tree, P(_)) ==
    /\ IsContainer(tree)
    /\ tree.t = "list"
    /\ \A i \in 1..Len(tree.items) : P(tree.items[i])

InInterval(date, k) ==
    Ordinal(StartOf(k)) <= Ordinal(date) /\ Ordinal(date) <= Ordinal(StopOf(k))

\* C11: the daily form gives a flat sequence of dates, each one day after
\* the one before, all within [start, stop], from start to stop when the
\* interval holds a day: so a date is returned exactly when it lies in
\* [start, stop] and none is later than stop, for every start and stop.
C11_DailyClosedInterval ==
    (pc = "done" /\ HasDatesForm(k_daily)) =>
        /\ ret.exc = "none"
        /\ IsListOf(ResultTree, IsIsoText)
        /\ LET ds == [i \in 1..Len(ResultTree.items) |-> ParseIso(ResultTree.items[i])]
           IN  /\ \A i \in 1..Len(ds) : InInterval(ds[i], k_daily)
               /\ \A i \in 1..(Len(ds) - 1) : Ordinal(ds[i + 1]) = Ordinal(ds[i]) + 1
               /\ Ordinal(StartOf(k_daily)) <= Ordinal(StopOf(k_daily)) =>
                     /\ Len(ds) >= 1
                     /\ ds[1] = StartOf(k_daily)
                     /\ Ordinal(ds[Len(ds)]) = Ordinal(StopOf(k_daily))

IsIsoGroup(tree) == IsListOf(tree, IsIsoText)

YearMonth(v) == <<ParseIso(v).d[1], ParseIso(v).d[2]>>

\* expand({daily: {start, stop}}) for the start and stop of the monthly form.
DailyOfMonthly ==
    LET s == Store(<<>>, DictOf(<<k_daily>>, <<DatesOf(k_monthly)>>))
        r == expand(s.h, s.v)
    IN  Tree(r.h, r.v)

\* C12: the monthly form gives groups that partition the days of
\* [start, stop]: no group is empty, a group holds dates of one
\* (year, month), the groups follow in increasing (year, month), every date
\* lies in [start, stop], and the groups in order make up the daily form.
C12_MonthlyPartition ==
    (pc = "done" /\ HasDatesForm(k_monthly)) =>
        /\ ret.exc = "none"
        /\ IsListOf(ResultTree, IsIsoGroup)
        /\ LET gs == [i \in 1..Len(ResultTree.items) |-> ResultTree.items[i].items]
           IN  /\ \A i \in 1..Len(gs) : gs[i] # <<>>
               /\ \A i \in 1..Len(gs) : \A j \in 1..Len(gs[i]) :
                     /\ YearMonth(gs[i][j]) = YearMonth(gs[i][1])
                     /\ InInterval(ParseIso(gs[i][j]), k_monthly)
               /\ \A i \in 1..(Len(gs) - 1) :
                     TupleLess(YearMonth(gs[i][1]), YearMonth(gs[i + 1][1]))
               /\ Concat(gs) = DailyOfMonthly.items

IsList(tree) == IsContainer(tree) /\ tree.t = "list"

HasForm ==
    /\ IsContainer(InputValues)
    /\ InputValues.t = "dict"
    /\ \/ IsRangeForm
       \/ DictHas(InputValues, k_monthly)
       \/ DictHas(InputValues, k_daily)

Doc == Tree(heap, args.self)

NoLoop == ~DictHas(Doc, k_loop) \/ DictGet(Doc, k_loop) = None

\* The number of variables that the loop section declares.
LoopVars ==
    IF ~NoLoop /\ IsContainer(DictGet(Doc, k_loop)) /\ IsDictType(DictGet(Doc, k_loop).t)
    THEN Len(DictGet(Doc, k_loop).keys) ELSE 0

LoopName(j) == DictGet(Doc, k_loop).keys[j]

\* expand(D) for the domain D of the j-th variable, D written out anew.
Expanded(j) ==
    LET s == Store(<<>>, DictGet(Doc, k_loop).items[j])
        r == expand(s.h, s.v)
    IN  IF r.exc = "none" THEN [exc |-> "none", els |-> Elements(r.h, r.v)]
        ELSE [exc |-> r.exc, els |-> <<>>]

DomainsExpand == \A j \in 1..LoopVars : Expanded(j).exc = "none"

\* C14: with no loop section (the key absent, or null) iter_configs yields
\* one pair, the empty binding and the document itself, and raises nothing.
C14_NoLoopYieldsDocument ==
    (pc = "done" /\ ret.op = "iter_configs" /\ NoLoop) =>
        /\ ret.exc = "none"
        /\ Len(ret.yields) = 1
        /\ DOMAIN ret.yields[1].vars = {}
        /\ ret.yields[1].config = args.self

\* The binding of the one variable to the i-th element of its domain.
Binding1(i) == (LoopName(1) :> Expanded(1).els[i])

\* substitute(doc, vars=binding) for that binding: its outcome, as a tree.
Substituted1(i) ==
    LET r == substitute(heap, args.self, Binding1(i), FALSE)
    IN  [exc |-> r.exc, tree |-> IF r.exc = "none" THEN Tree(r.h, r.v) ELSE None]

\* C15: with one loop variable n of domain D, the i-th pair of iter_configs
\* is the binding {n: expand(D)[i]} with a document equal to
\* substitute(doc, vars=binding), in the order of expand(D), one pair for
\* each element (the iteration ends before that only with the exception of
\* substitute for the next binding); _iter_loops yields these bindings in
\* this order and _len_of_iter_loops is their count.
C15_OneVariable ==
    (pc = "done" /\ LoopVars = 1 /\ DomainsExpand) =>
        LET n == Len(Expanded(1).els)
        IN  /\ ret.op = "iter_configs" =>
                  /\ Len(ret.yields) <= n
                  /\ \A i \in 1..Len(ret.yields) :
                        /\ ret.yields[i].vars = Binding1(i)
                        /\ Substituted1(i).exc = "none"
                        /\ PyEq(Tree(heap, ret.yields[i].config), Substituted1(i).tree)
                  /\ IF ret.exc = "none" THEN Len(ret.yields) = n
                     ELSE Substituted1(Len(ret.yields) + 1).exc = ret.exc
            /\ ret.op = "_iter_loops" =>
                  /\ ret.exc = "none"
                  /\ ret.yields = [i \in 1..n |-> Binding1(i)]
            /\ ret.op = "_len_of_iter_loops" => (ret.exc = "none" /\ ret.v = Num(n))

\* C15's case: the variable v1 over {start: 1, stop: 3, step: 2} gave two
\* pairs, the second binding v1 to 3 with '$v1' resolved to '3'.
C15_Witness ==
    /\ pc = "done"
    /\ ret.op = "iter_configs"
    /\ LoopVars = 1
    /\ ret.exc = "none"
    /\ Len(ret.yields) = 2
    /\ ret.yields[2].vars = (LoopVarName(1) :> Num(3))
    /\ DictGet(Tree(heap, ret.yields[2].config), <<"x">>) = Str(<<"3">>)

RECURSIVE SizeFrom(_)
\* The number of tuples of the domains of the variables j, j + 1, ...
SizeFrom(j) == IF j > LoopVars THEN 1 ELSE Len(Expanded(j).els) * SizeFrom(j + 1)

\* The i-th tuple of the product of the domains in declared order, the last
\* variable varying fastest: its value for the j-th variable.
ProductAt(i, j) ==
    Expanded(j).els[(((i - 1) \div SizeFrom(j + 1)) % Len(Expanded(j).els)) + 1]

\* The binding of every variable to its value in the i-th tuple.
BindingAt(i) ==
    [name \in {LoopName(j) : j \in 1..LoopVars} |->
        ProductAt(i, CHOOSE j \in 1..LoopVars : LoopName(j) = name)]

\* C16: with two or more loop variables iter_configs yields one pair for
\* each tuple of the product of the expanded domains, in declared order with
\* the last variable varying fastest, each binding giving every variable a
\* value of its own domain (the iteration ends before that only with the
\* exception of substitute for the next binding).
C16_CartesianProduct ==
    (pc = "done" /\ ret.op = "iter_configs" /\ LoopVars >= 2 /\ DomainsExpand) =>
        /\ Len(ret.yields) <= SizeFrom(1)
        /\ \A i \in 1..Len(ret.yields) : ret.yields[i].vars = BindingAt(i)
        /\ IF ret.exc = "none" THEN Len(ret.yields) = SizeFrom(1)
           ELSE /\ Len(ret.yields) < SizeFrom(1)
                /\ substitute(heap, args.self, BindingAt(Len(ret.yields) + 1), FALSE).exc
                      = ret.exc

(***************************************************************************)
(* DictObj (SpecDictObj)                                                   *)
(***************************************************************************)
\* C17: once the tree is built, every mapping reachable in it is a wrapped
\* node (a DictObj), at every depth and through every path: in a mapping,
\* in a sequence, in a sequence inside a sequence.
C17_EveryMappingWrapped ==
    pc # "ready" =>
        \A a \in Refs(heap, args.self) : IsDictType(heap[a].t) => heap[a].t = "DictObj"

\* The node and the name of the last field access.
ReadNode == heap[ret.node.n]

\* C18 as written: a field access gives what the key lookup gives for
\* every key, a name of an operation of dict included, after any
\* assignments; a name that is no key fails with AttributeError.
C18_FieldEqualsKey ==
    pc = "read" =>
        IF DictHas(ReadNode, ret.attr)
        THEN ret.exc = "none" /\ ret.v = DictGet(ReadNode, ret.attr)
        ELSE ret.exc = "AttributeError"

\* C18 as the code has it: a name of an operation of dict always gives the
\* operation, key or no key; for every other name a field access gives what
\* the key lookup gives, after any assignments, and fails with
\* AttributeError when the name is no key.
C18_FieldEqualsKeyUnlessOperation ==
    pc = "read" =>
        IF ret.attr \in DictMethods
        THEN ret.exc = "none" /\ ret.v = Method(ret.node.n, ret.attr)
        ELSE IF DictHas(ReadNode, ret.attr)
        THEN ret.exc = "none" /\ ret.v = DictGet(ReadNode, ret.attr)
        ELSE ret.exc = "AttributeError"

\* C18's case: a nested node was given the new key 'new' by an assignment
\* and the field access reads the assigned value.
C18_Witness ==
    /\ pc = "read"
    /\ ret.node # args.self
    /\ ret.attr = <<"n", "e", "w">>
    /\ ~DictHas(Tree(heap, args.value), <<"n", "e", "w">>)
    /\ ret.exc = "none"
    /\ ret.v = Num(7)

(***************************************************************************)
(* Claims about LoadersConfig (SpecLoaders)                                *)
(***************************************************************************)
\* The document the constructor was given.
Supplied == Tree(heap, args.config)

SuppliedHas(key) == DictHas(Supplied, key) /\ IsDictType(DictGet(Supplied, key).t)

SuppliedOutput == DictGet(Supplied, k_output)

\* The document has the sections of a loader document.
WellShaped == SuppliedHas(k_input) /\ SuppliedHas(k_output)

HasLegacyOrder == SuppliedHas(k_output) /\ DictHas(SuppliedOutput, k_order)

StatisticsAbsent == WellShaped /\ ~DictHas(SuppliedOutput, k_statistics)

\* The axes of order_by: the keys of a mapping, the names of a list.
AxesOf(order_by) ==
    IF IsDictType(order_by.t) THEN {Str(order_by.keys[i]) : i \in 1..Len(order_by.keys)}
    ELSE {order_by.items[i] : i \in 1..Len(order_by.items)}

StatisticsNotAxis ==
    /\ WellShaped
    /\ DictHas(SuppliedOutput, k_statistics)
    /\ DictHas(SuppliedOutput, k_order_by)
    /\ DictGet(SuppliedOutput, k_statistics) \notin AxesOf(DictGet(SuppliedOutput, k_order_by))

\* The exceptions the constructor raises itself for a document it refuses:
\* the ValueError of its raise statement, the AssertionError of its asserts.
SchemaErrors == {"ValueError", "AssertionError"}

\* C19: the construction of LoadersConfig fails when output has the key
\* 'order', and this whatever else the document has or lacks, since it is
\* checked first; it fails when output.statistics is absent and when it names
\* no axis of output.order_by; these failures are the constructor's own
\* ValueError and AssertionError, the two asserts being replaced by the
\* AttributeError or KeyError of the statement after them in an interpreter
\* that strips asserts; a construction that fails returns no object.
C19_SchemaErrors ==
    pc = "done" =>
        /\ HasLegacyOrder => ret.exc = "ValueError"
        /\ (~HasLegacyOrder /\ (StatisticsAbsent \/ StatisticsNotAxis)) =>
               /\ ret.exc # "none"
               /\ ~args.optimize => ret.exc \in SchemaErrors
               /\ args.optimize => ret.exc \in {"AttributeError", "KeyError"}
        /\ ret.exc # "none" => ret.v.t # "ref"

\* A document refused for its statistics alone.
C19_Witness ==
    /\ pc = "done"
    /\ ~HasLegacyOrder
    /\ StatisticsNotAxis
    /\ ret.exc = "AssertionError"

\* The object built, and its output section.
Built == Tree(heap, ret.v)

BuiltOutput == DictGet(Built, k_output)

\* The value supplied under key in section, or the default.
SuppliedOr(section, key, default) ==
    IF DictHas(section, key) THEN DictGet(section, key) ELSE default

\* C20: after a successful construction output has remapping, chunking,
\* dtype and flatten_values; chunking, dtype and flatten_values are the
\* supplied values or {}, 'float32' and False; output.append_axis is 0
\* whatever was supplied; the top-level reading_chunks is the supplied value
\* or None.
C20_Defaults ==
    (pc = "done" /\ ret.exc = "none") =>
        /\ \A key \in {k_remapping, k_chunking, k_dtype, k_flatten_values} :
               DictHas(BuiltOutput, key)
        /\ PyEq(DictGet(BuiltOutput, k_chunking),
                SuppliedOr(SuppliedOutput, k_chunking, EmptyCell))
        /\ PyEq(DictGet(BuiltOutput, k_dtype), SuppliedOr(SuppliedOutput, k_dtype, float32))
        /\ PyEq(DictGet(BuiltOutput, k_flatten_values),
                SuppliedOr(SuppliedOutput, k_flatten_values, Bool(FALSE)))
        /\ DictGet(BuiltOutput, k_append_axis) = Num(0)
        /\ DictHas(Built, k_reading_chunks)
        /\ DictGet(Built, k_reading_chunks) = SuppliedOr(Supplied, k_reading_chunks, None)

\* A document that supplies an append_axis and a chunking and leaves the
\* dtype and reading_chunks out.
C20_Witness ==
    /\ pc = "done"
    /\ ret.exc = "none"
    /\ DictHas(SuppliedOutput, k_append_axis)
    /\ DictGet(SuppliedOutput, k_append_axis) # Num(0)
    /\ DictHas(SuppliedOutput, k_chunking)
    /\ ~DictHas(SuppliedOutput, k_dtype)
    /\ ~DictHas(Supplied, k_reading_chunks)

\* The axes of the object built, in the key order of output.order_by.
BuiltAxes == DictGet(BuiltOutput, k_order_by).keys

\* The zero-based position of output.statistics in the key order of
\* output.order_by, for a statistics that names a key.
StatisticsPosition ==
    (CHOOSE i \in 1..Len(BuiltAxes) : Str(BuiltAxes[i]) = DictGet(BuiltOutput, k_statistics)) - 1

StatisticsNamesAxis ==
    /\ DictHas(BuiltOutput, k_statistics)
    /\ DictHas(BuiltOutput, k_order_by)
    /\ \E i \in 1..Len(BuiltAxes) : Str(BuiltAxes[i]) = DictGet(BuiltOutput, k_statistics)

\* C21 as stated: after a successful construction output.statistics names a
\* key of output.order_by and the output section has a field statistics_axis
\* equal to the zero-based position of that key.
C21_AxisInOutput ==
    (pc = "done" /\ ret.exc = "none") =>
        /\ StatisticsNamesAxis
        /\ DictHas(BuiltOutput, k_statistics_axis)
        /\ DictGet(BuiltOutput, k_statistics_axis) = Num(StatisticsPosition)

\* C21: after a successful construction output.statistics names a key of
\* output.order_by, and statistics_axis, a field of the object itself and
\* not of its output section, equals the zero-based position of that key in
\* the key order of output.order_by; statistics_names, beside it, is the
\* value of order_by under that key.
C21_AxisAtTopLevel ==
    (pc = "done" /\ ret.exc = "none") =>
        /\ StatisticsNamesAxis
        /\ ~DictHas(BuiltOutput, k_statistics_axis)
        /\ DictHas(Built, k_statistics_axis)
        /\ DictGet(Built, k_statistics_axis) = Num(StatisticsPosition)
        /\ DictHas(Built, k_statistics_names)
        /\ DictGet(Built, k_statistics_names)
               = DictGet(DictGet(BuiltOutput, k_order_by), DictGet(BuiltOutput, k_statistics).s)

\* A construction whose statistics axis is not the first one.
C21_Witness ==
    /\ pc = "done"
    /\ ret.exc = "none"
    /\ StatisticsNamesAxis
    /\ DictGet(Built, k_statistics_axis) = Num(1)

(***************************************************************************)
(* Claims about set on the settings store (SpecSet)                        *)
(***************************************************************************)
\* What get returns for every setting, through SETTINGS.
Gets(h) == [name \in SettingNames |-> settings_get(h, SETTINGS, name)]

\* The file settings.yaml and the callbacks.
Persisted(h) == h[2]

Calls(h) == [a \in {3, 4} |-> h[a].calls]

\* The store that a call through SETTINGS reaches: the top of the stack of
\* overrides, SETTINGS itself when there is none.
Receiver(h) ==
    IF h[SETTINGS].stack = <<>> THEN SETTINGS ELSE h[SETTINGS].stack[Len(h[SETTINGS].stack)]

\* A step of set(name, v) with the one value v, and one that fails.
SetStep == pc = "ready" /\ pc' = "done" /\ ret'.op = "set"

SetOneValue == SetStep /\ Len(ret'.argv) = 1 /\ ret'.kwargs.keys = <<>>

\* The numbers that the texts of the calls stand for, each in the unit of
\* its setting: seconds, percent, bytes.
ParsedValue(name, v) ==
    CASE v = Num(3) -> Num(3)
      [] v = None /\ name = "maximum-cache-size" -> None
      [] v = Str(<<"1", "m">>) /\ name = "url-download-timeout" -> Num(60)
      [] v = Str(<<"1", "m">>) /\ name = "maximum-cache-size" -> Num(1048576)
      [] v = Str(<<"1", "0", "K">>) /\ name = "maximum-cache-size" -> Num(10240)
      [] v = Str(<<"5", "0", "%">>) /\ name = "maximum-cache-disk-usage" -> Num(50)
      [] OTHER -> Unbound

HasUnit(name) == name \in {"maximum-cache-size", "maximum-cache-disk-usage", "url-download-timeout"}

\* A failing set leaves what get returns, the file and the callbacks as
\* they were.
FailingSetChangesNothing ==
    (SetStep /\ ret'.exc # "none") =>
        /\ Gets(heap') = Gets(heap)
        /\ Persisted(heap') = Persisted(heap)
        /\ Calls(heap') = Calls(heap)

\* A successful set calls every callback of the store that received it,
\* once for each time it is registered there.
SetNotifies ==
    (SetStep /\ ret'.exc = "none") =>
        \A a \in {3, 4} :
            heap'[a].calls = heap[a].calls + CountOf(heap[Receiver(heap)].callbacks, a)

\* C25 as stated: a failing set changes nothing, and after a successful
\* set(name, v) get(name) returns v, parsed for a setting with a unit, and
\* the callbacks of the receiving store were called.
C25_SetReturnsValue ==
    [][/\ FailingSetChangesNothing
       /\ SetNotifies
       /\ (SetOneValue /\ ret'.exc = "none") =>
              settings_get(heap', SETTINGS, ret'.name)
                 = Ok(IF HasUnit(ret'.name) THEN ParsedValue(ret'.name, ret'.argv[1])
                      ELSE ret'.argv[1])]_state

\* C25: a set that fails (the name of no setting, a value of the wrong type,
\* a badly formed number or unit, a wrong count of arguments) leaves what
\* get returns for every setting, the file and the counts of the callbacks
\* as they were; after a successful set(name, v) get(name) returns v, or the
\* number v stands for when the setting has a unit, or the one-element list
\* [v] when the setting is a list and v is not one; and every callback of
\* the store that received the set was called.
C25_SetReturnsValueOrList ==
    [][/\ FailingSetChangesNothing
       /\ SetNotifies
       /\ (SetOneValue /\ ret'.exc = "none") =>
              settings_get(heap', SETTINGS, ret'.name)
                 = Ok(IF HasUnit(ret'.name) THEN ParsedValue(ret'.name, ret'.argv[1])
                      ELSE IF SETTINGS_AND_HELP[ret'.name].kind = "list"
                              /\ ret'.argv[1].t # "list"
                      THEN Cell("list", <<>>, ret'.argv)
                      ELSE ret'.argv[1])]_state

\* A set refused for its unit while an override is active and callbacks are
\* registered.
C25_Witness ==
    /\ pc = "done"
    /\ ret.op = "set"
    /\ ret.exc = "ValueError"
    /\ ret.name = "url-download-timeout"
    /\ heap[SETTINGS].stack # <<>>
    /\ heap[SETTINGS].callbacks # <<>>

(***************************************************************************)
(* Claims about scopes of temporary overrides in one thread (SpecScopes)   *)
(***************************************************************************)
Depth(h) == Len(h[SETTINGS].stack)

\* A step that is the call op.
ScopeStep(ops) == args'.ops = args.ops + 1 /\ ret'.op \in ops

\* What the values of the with statements stand for: a count for the
\* number of threads, seconds for the timeout.
OverrideValue(name, v) ==
    CASE v = Num(3) -> Num(3)
      [] v = Str(<<"1", "m">>) /\ name = "url-download-timeout" -> Num(60)
      [] OTHER -> Unbound

\* In a scope just entered, get returns the override for its name and, for
\* every other name, what it returned before the with statement.
EnterOverrides ==
    (ScopeStep({"enter"}) /\ ret'.exc = "none") =>
        /\ Depth(heap') = Depth(heap) + 1
        /\ \A name \in ScopeNames :
              ScopeGets(heap')[name]
                 = IF ret'.has_name /\ name = ret'.name
                   THEN Ok(OverrideValue(name, ret'.argv[1]))
                   ELSE ScopeGets(heap)[name]

\* A set or a reset inside a scope leaves SETTINGS, its file and the scopes
\* around the innermost one as they were.
InnermostOnly ==
    (ScopeStep({"set", "reset"}) /\ Depth(heap) > 0) =>
        /\ heap'[SETTINGS] = heap[SETTINGS]
        /\ Persisted(heap') = Persisted(heap)
        /\ \A i \in 1..(Depth(heap) - 1) :
              heap'[heap[SETTINGS].stack[i]] = heap[heap[SETTINGS].stack[i]]

\* The end of a scope, by its last statement or by an exception, puts the
\* depth of the stack and what get returns back to what they were before
\* its with statement; the scope that ends is the one entered last.
ExitRestores ==
    ScopeStep({"exit", "raise"}) =>
        /\ ret'.exc = "none"
        /\ Depth(heap') = args.scopes[Len(args.scopes)].depth
        /\ ScopeGets(heap') = args.scopes[Len(args.scopes)].gets
        /\ Depth(heap') = Len(args'.scopes)

\* C22: in one thread, inside a scope of settings.temporary get returns the
\* override for the name of the scope and for every other name the value
\* it had when the scope was made; a set or a reset inside the scope
\* changes only that scope; when the scope ends, normally or by an
\* exception, the depth of the stack and every get are as before the scope;
\* scopes nest and end last in, first out.
C22_ScopedOverrides == [][EnterOverrides /\ InnermostOnly /\ ExitRestores]_state

\* An inner scope ended by an exception after a set inside it, the outer
\* scope, which overrides the timeout, still open.
C22_Witness ==
    /\ args.ops = MaxOps
    /\ ret.op = "raise"
    /\ ret.exc = "none"
    /\ Len(args.scopes) = 1
    /\ Depth(heap) = 1
    /\ ScopeGets(heap)["url-download-timeout"] = Ok(Num(60))
    /\ ScopeGets(heap)["number-of-download-threads"] = Ok(Num(5))
    /\ \E a \in 1..Len(heap) :
          /\ heap[a].t = "Settings"
          /\ a \notin {SETTINGS, heap[SETTINGS].stack[1]}
          /\ heap[a].settings["number-of-download-threads"] = Num(3)

(***************************************************************************)
(* Claims about scopes of temporary overrides in two threads (SpecThreads) *)
(***************************************************************************)
\* The scope of the thread t has popped the Settings that t had pushed.
PopsItsOwn(t) == pc[t] \in {"popped", "out"} /\ args.threads[t].popped # 0 =>
                    args.threads[t].popped = args.threads[t].tmp

\* Inside its scope, get has returned to the thread t its own override.
GetsItsOwn(t) ==
    pc[t] = "got" =>
        args.threads[t].got = Ok(OverrideValue(args.threads[t].name, args.threads[t].value))

\* Both threads are out of their scopes: no override is left and get
\* returns the values of SETTINGS, which no call has changed.
BaseAfterBoth ==
    (\A t \in Threads : pc[t] = "out") =>
        /\ heap[SETTINGS].stack = <<>>
        /\ ScopeGets(heap) = ScopeGets(StoreAtImport)

\* C26: with two threads, each in its own scope of settings.temporary, in
\* every interleaving the override that the end of a scope removes is the
\* one the scope pushed, get inside a scope returns to its thread the
\* override of that scope, and after both scopes no override is left and
\* get returns the base values.
C26_OwnOverride ==
    /\ \A t \in Threads : PopsItsOwn(t) /\ GetsItsOwn(t)
    /\ BaseAfterBoth

(***************************************************************************)
(* Claims about the source "constants" (SpecConstants)                     *)
(***************************************************************************)
Requested(key) == DictHas(args.request, key)

RequestedList(key) == DictGet(args.request, key).items

\* The lengths that the request and the source give the three axes.
DatesWanted ==
    IF Requested(k_date) /\ Requested(k_time)
    THEN Len(RequestedList(k_date)) * Len(RequestedList(k_time))
    ELSE IF Requested(k_date) THEN Len(RequestedList(k_date))
    ELSE Len(DictGet(args.source.unique_values, k_valid_datetime).items)

ParamsWanted ==
    IF DictGet(args.request, k_param).t \in {"list", "tuple"}
    THEN Len(RequestedList(k_param)) ELSE 1

NumbersWanted ==
    IF Requested(k_number) THEN Len(RequestedList(k_number))
    ELSE Len(DictGet(args.source.unique_values, k_number).items)

FieldsWanted == DatesWanted * ParamsWanted * NumbersWanted

\* The hour that a time of the request stands for, given as hh or as hhmm.
HourOf(time) == IF time.n > 24 THEN time.n \div 100 ELSE time.n

\* The dates of the source are one for each pair of a date and a time of
\* the request, the dates in the outer loop.
OnePerPair(dates) ==
    /\ Len(dates) = Len(RequestedList(k_date)) * Len(RequestedList(k_time))
    /\ \A k \in 1..Len(dates) :
          /\ SubSeq(dates[k].d, 1, 3)
                = SubSeq(RequestedList(k_date)[((k - 1) \div Len(RequestedList(k_time))) + 1].d,
                         1, 3)
          /\ dates[k].d[4] = HourOf(RequestedList(k_time)[((k - 1) % Len(RequestedList(k_time))) + 1])

PairwiseDistinct(q) == \A i \in 1..Len(q) : \A j \in 1..Len(q) : q[i] = q[j] => i = j

\* C23: a Constants source has len(dates) * len(params) * len(numbers)
\* fields; its dates are the date list of the request when no time is
\* asked, and one datetime for each pair of a date and a time, all of them
\* different, when times are asked (the difference is held by an assert,
\* so by an interpreter that runs the asserts); times without dates fail
\* with an error; and _getitem(i) raises IndexError for every i from the
\* number of fields on.
C23_FieldCount ==
    /\ pc = "made" =>
          /\ Constants_len(heap[1]) = FieldsWanted
          /\ Len(heap[1].dates.items) * Len(heap[1].params.items) * Len(heap[1].numbers.items)
                = FieldsWanted
          /\ Requested(k_date) /\ ~Requested(k_time) =>
                heap[1].dates.items = RequestedList(k_date)
          /\ Requested(k_date) /\ Requested(k_time) =>
                /\ OnePerPair(heap[1].dates.items)
                /\ ~args.optimize => PairwiseDistinct(heap[1].dates.items)
          /\ ret.op = "len" => ret.v = Num(FieldsWanted)
          /\ ret.op = "getitem" /\ ret.i >= FieldsWanted => ret.exc = "IndexError"
    /\ pc # "ready" /\ Requested(k_time) /\ ~Requested(k_date) =>
          pc = "failed" /\ ret.exc = "ValueError"

\* Two dates at two times, one param, one number: four fields, and
\* _getitem(4) has raised IndexError.
C23_Witness ==
    /\ pc = "made"
    /\ Requested(k_date)
    /\ Requested(k_time)
    /\ Len(heap[1].dates.items) = 4
    /\ FieldsWanted = 4
    /\ ret.op = "getitem"
    /\ ret.i = 4
    /\ ret.exc = "IndexError"
====
